---- MODULE Spec2Model ----
(***************************************************************************)
(* Browser process lifecycle and cleanup of VVMaestro/embassy.             *)
(*                                                                         *)
(* One session controller (ChromeWithFullCleanup, ChromeWithProperCleanup  *)
(* or ChromeUltraAggressiveCleanup) is constructed, entered, its body runs *)
(* and it is released (__exit__), possibly twice.  The operating system is *)
(* a table of processes of which a set is alive; processes may exit on     *)
(* their own at any moment, so every scan/signal race of the code is a     *)
(* reachable interleaving.  The POSIX branch of sys.platform is modelled.  *)
(* Time inside _wait_for_process_cleanup is counted in poll intervals.     *)
(***************************************************************************)
EXTENDS Integers, Sequences, FiniteSets, TLC

\* ------------------------------------------------------------- bounds
MaxPid == 5
MaxTimeout == 2
MaxReleases == 2
MaxWorkers == 3
MaxNodes == 4
MaxRows == 2
MaxCols == 2

\* ------------------------------------------------- program constants
DevToolsPort == 9222
ChromeDriverPort == 9515
DebugRangeLo == 9000
DebugRangeHi == 10000

\* ------------------------------------------------------------ strings
\* A Python str is a sequence of one-character strings.
W_chrome == <<"c", "h", "r", "o", "m", "e">>
W_chromium == <<"c", "h", "r", "o", "m", "i", "u", "m">>
W_driver == <<"d", "r", "i", "v", "e", "r">>
W_chromedriver == W_chrome \o W_driver
W_port == <<"-", "-", "p", "o", "r", "t", "=">>
W_type == <<"-", "-", "t", "y", "p", "e", "=">>
W_udd == <<"-", "-", "u", "s", "e", "r", "-", "d", "a", "t", "a", "-", "d", "i", "r", "=">>
W_rdp == <<"-", "-", "r", "e", "m", "o", "t", "e", "-", "d", "e", "b", "u", "g", "g", "i", "n", "g", "-", "p", "o", "r", "t", "=">>
W_testtype == <<"-", "-", "t", "e", "s", "t", "-", "t", "y", "p", "e", "=">>
W_headless == <<"h", "e", "a", "d", "l", "e", "s", "s">>
W_nosandbox == <<"n", "o", "-", "s", "a", "n", "d", "b", "o", "x">>
W_bash == <<"b", "a", "s", "h">>
W_sp == <<" ">>

\* needle in hay (Python's `in` on str)
Contains(needle, hay) ==
    \E i \in 1..(Len(hay) - Len(needle) + 1) :
        SubSeq(hay, i, i + Len(needle) - 1) = needle

LowerChar(c) ==
    CASE c = "C" -> "c"
      [] c = "D" -> "d"
      [] c = "H" -> "h"
      [] c = "P" -> "p"
      [] c = "T" -> "t"
      [] OTHER -> c

\* str.lower()
Lower(s) == [i \in 1..Len(s) |-> LowerChar(s[i])]

\* ------------------------------------------------------ process table
Pids == 1..MaxPid

\* The ProcessRecord of each process id: what psutil reports for it while
\* it is alive.  1 is the chromedriver of another session that runs before
\* acquire, 5 a server script of the user that is no browser and listens on
\* a port of the debugging range; 2 is the chromedriver
\* the client starts, 3 the browser it starts, every other id a renderer.
ProcTable(p) ==
    CASE p = 1 -> [name |-> <<"C">> \o SubSeq(W_chromedriver, 2, 12),
                   exe |-> W_chromedriver,
                   cmdline |-> W_chromedriver \o W_sp \o W_port, ppid |-> 0,
                   ports |-> {DevToolsPort}]
      [] p = 2 -> [name |-> W_chromedriver, exe |-> W_chromedriver,
                   cmdline |-> W_chromedriver \o W_sp \o W_port, ppid |-> 0,
                   ports |-> {ChromeDriverPort}]
      [] p = 3 -> [name |-> W_chrome, exe |-> W_chrome,
                   cmdline |-> W_chrome \o W_sp \o W_nosandbox \o W_sp \o W_udd,
                   ppid |-> 2, ports |-> {DebugRangeLo + 333}]
      [] p = 5 -> [name |-> W_bash, exe |-> W_bash, cmdline |-> W_bash,
                   ppid |-> 0, ports |-> {DebugRangeLo + 400}]
      [] OTHER -> [name |-> W_chrome, exe |-> W_chrome,
                   cmdline |-> W_chrome \o W_sp \o W_type, ppid |-> 3,
                   ports |-> {}]

\* Processes that may run before acquire; the others are started by launch.
PreExisting == {1, 5}
SessionPids == Pids \ PreExisting
\* Processes of the user that have nothing to do with a browser; one may
\* also start while a session is being set up.
Unrelated == {p \in PreExisting : ProcTable(p).name = W_bash}
\* The renderers: helper processes the browser starts at launch or later,
\* when the workflow opens a page.
Renderers == {p \in SessionPids : Contains(W_type, ProcTable(p).cmdline)}
\* Processes of another user: a signal to them is refused.
DeniedCandidates == {1}

Kinds == {"Full", "Proper", "Ultra"}

VARIABLES
    kind,             \* the controller class
    alive,            \* process ids alive in the operating system
    denied,           \* process ids this user may not signal
    cleanup_timeout,  \* self.cleanup_timeout, in poll intervals
    driver,           \* self.driver: "None" or "Driver"
    chrome_pids,      \* the pre-launch snapshot (chrome_pids / existing_pids / initial_pids)
    initial_ports,    \* Ultra: ports snapshot before launch
    spawned_pids,     \* the tracked set (spawned_pids / all_pids)
    chromedriver_pid, \* self.chromedriver_pid, 0 for None
    chrome_ports,     \* Ultra: self.chrome_ports
    user_data_dir,    \* Ultra: "None", "Dir" (exists) or "Removed"
    pc,               \* position of the controller's caller
    outer,            \* outer loop of a kill batch: roots still to visit
    todo,             \* inner loop of a kill batch: ids still to visit
    cur,              \* the process a sweep has fetched, 0 for none
    elapsed,          \* time.time() - start_time, in poll intervals
    cleanup_success,  \* result of the wait: "unset", "true" or "false"
    remaining,        \* remaining_pids of the verifier's last scan
    releases,         \* number of __exit__ calls started
    workflow_exc,     \* the with-body raised
    exc_out,          \* the exception leaving __exit__, "none" if it returned
    steps,            \* the steps of the current release, in order
    sigs,             \* the signals issued or attempted by the current release
    quit_calls,       \* driver.quit() calls of the current release
    quit_raised,      \* driver.quit() raised in the current release
    npolls,           \* polls made by the current wait
    busy_polls,       \* polls of the current wait that saw a tracked id alive
    quiet_at,         \* first poll instant from which no tracked id is alive, -1 if none yet
    verify_scans,     \* inventory scans made by the verifier in the current release
    entered,          \* __enter__ ran to its return
    first_scan,       \* what the verifier's first scan of the current release found
    verify_kills,     \* kill calls of the verifier's own pass in the current release
    verify_ret,       \* what _verify_cleanup returned in the current release
    tree_pids,        \* tree_pids / all_pids of the tree kill in progress
    kill_log,         \* the signals the tree kills of the current release made, in order
    esc_start,        \* whether the kill step of the current release began, whether nothing was tracked then, and if so what was alive
    pids_before,      \* spawn-delta on its own: the snapshot before launch
    pids_after,       \* spawn-delta on its own: the snapshot after launch
    spawn_delta,      \* spawn-delta on its own: pids_after - pids_before
    delta_done,       \* spawn-delta on its own: the subtraction was made
    shared_driver,    \* main.py: the global shared_driver, None or a driver handle
    launches,         \* main.py: calls of init_chromium that returned a driver
    wdriver,          \* main.py: the driver each worker thread passed to job_func
    driver_lock,      \* main.py: the worker holding driver_lock, 0 when free
    active_threads,   \* main.py: the dict thread_id -> Thread
    thread_id,        \* main.py: the local thread_id of start_run_process
    thread,           \* main.py: the local thread of start_run_process, 0 before it is created
    spc,              \* main.py: position of the scheduler's thread
    wpc,              \* main.py: position of each worker thread
    wid,              \* main.py: the thread_id argument of each worker thread
    wout,             \* main.py: how job_func ended in each worker thread
    records,          \* a scan on its own: what process_iter yields
    scanned,          \* a scan on its own: the positions each controller's scan kept
    scan_done,        \* a scan on its own: the scans were made
    parent_of,        \* a process tree on its own: the parent id of each process, 0 for none
    listing,          \* a process tree on its own: the order in which the processes are listed
    tree_root,        \* a process tree on its own: the pid argument
    tree_gone,        \* a process tree on its own: the processes that vanish during the call
    resolved,         \* a process tree on its own: _get_process_tree returned
    calendar_rows,    \* the calendar search on its own: the rows argument
    prefer_dates,     \* the calendar search on its own: the prefer_dates argument
    chosen_date,      \* the calendar search on its own: what find_date_in_rows returned
    available_dates,  \* the calendar search on its own: available_dates at the end
    find_done         \* the calendar search on its own: find_date_in_rows returned

vars == <<kind, alive, denied, cleanup_timeout, driver, chrome_pids,
          initial_ports, spawned_pids, chromedriver_pid, chrome_ports,
          user_data_dir, pc, outer, todo, cur, elapsed, cleanup_success,
          remaining, releases, workflow_exc, exc_out, steps, sigs,
          quit_calls, quit_raised, npolls, busy_polls, quiet_at,
          verify_scans, entered, first_scan, verify_kills, verify_ret, esc_start, tree_pids,
          kill_log, pids_before, pids_after,
          spawn_delta, delta_done, shared_driver, launches, wdriver,
          driver_lock,
          active_threads, thread_id, thread, spc, wpc, wid, wout, records,
          scanned, scan_done, parent_of, listing, tree_root, tree_gone,
          resolved, calendar_rows, prefer_dates, chosen_date,
          available_dates, find_done>>

\* ------------------------------------------------------------ helpers
Min(S) == CHOOSE x \in S : \A y \in S : x <= y

RECURSIVE SetToSeq(_)
\* iteration over a set of ids, in ascending order
SetToSeq(S) == IF S = {} THEN <<>> ELSE <<Min(S)>> \o SetToSeq(S \ {Min(S)})

Reverse(s) == [i \in 1..Len(s) |-> s[Len(s) + 1 - i]]

Range(s) == {s[i] : i \in 1..Len(s)}

\* proc.info as process_iter fills it: a field the user may not read is None,
\* which every scan turns into "".
InfoOf(p) ==
    IF p \in denied THEN [ProcTable(p) EXCEPT !.exe = <<>>] ELSE ProcTable(p)


\* --------------------------------------------------- process inventory
\* ChromeWithFullCleanup._get_chrome_pids
FullMatch(info) ==
    \/ Contains(W_chrome, Lower(info.name))
    \/ Contains(W_chromium, Lower(info.name))

\* the keyword test of ChromeWithFullCleanup._force_kill_all_chrome
FullSweepMatch(info) ==
    \E keyword \in {W_chrome, W_chromium, W_chromedriver} :
        Contains(keyword, Lower(info.name))

\* ChromeWithProperCleanup._get_all_chrome_related_pids
ProperMatch(info) ==
    LET is_chrome ==
            \E keyword \in {W_chrome, W_chromium} :
                Contains(keyword, Lower(info.name))
        is_chromedriver ==
            \/ Contains(W_chromedriver, Lower(info.name))
            \/ Contains(W_chromedriver, Lower(info.cmdline))
            \/ Contains(W_port, info.cmdline)
    IN  is_chrome \/ is_chromedriver

\* (faulty variant of UltraMatch: only the process name is looked at)
UltraMatchNameOnly(info) ==
    \E keyword \in {W_chrome, W_chromium, W_chromedriver} :
        Contains(keyword, Lower(info.name))

\* ChromeUltraAggressiveCleanup._get_all_chrome_related_pids
UltraMatch(info) ==
    LET name == Lower(info.name)
        exe == Lower(info.exe)
        cmdline_lower == Lower(info.cmdline)
    IN  \/ Contains(W_chrome, name)
        \/ Contains(W_chromium, name)
        \/ Contains(W_chromedriver, name)
        \/ Contains(W_chrome, exe)
        \/ Contains(W_chromium, exe)
        \/ Contains(W_chromedriver, exe)
        \/ Contains(W_type, cmdline_lower)
        \/ Contains(W_udd, cmdline_lower)
        \/ Contains(W_rdp, cmdline_lower)
        \/ Contains(W_testtype, cmdline_lower)
        \/ Contains(W_headless, cmdline_lower)
        \/ Contains(W_nosandbox, cmdline_lower)

Match(k, info) ==
    CASE k = "Full" -> FullMatch(info)
      [] k = "Proper" -> ProperMatch(info)
      [] OTHER -> UltraMatch(info)

\* The ids each family predicate accepts (the table is fixed, so is this).
Family(k) == {p \in Pids : Match(k, InfoOf(p))}

\* One inventory scan of controller k over the live processes.
Scan(k, live) == live \cap Family(k)

\* (faulty variant of GetChromeRelatedPorts: the two well-known ports are
\* not added, only ports seen bound are returned)
GetChromeRelatedPortsSeenOnly(live) ==
    LET ports == UNION {ProcTable(p).ports : p \in live \ denied}
    IN  {port \in ports : DebugRangeLo <= port /\ port <= DebugRangeHi}

\* ChromeUltraAggressiveCleanup._get_chrome_related_ports
GetChromeRelatedPorts(live) ==
    LET ports == UNION {ProcTable(p).ports : p \in live \ denied}
    IN  {DevToolsPort, ChromeDriverPort}
            \cup {port \in ports : DebugRangeLo <= port /\ port <= DebugRangeHi}

\* `lsof -ti:port`: the processes of this user that hold the port
LsofPids(port, live) == {p \in live \ denied : port \in ProcTable(p).ports}

\* The processes the six pkill/killall commands of
\* _strategy_system_command_cleanup select.
SysCmdTargets(live) ==
    {p \in live :
        \/ \E w \in {W_chrome, W_chromium, W_chromedriver} :
               Contains(w, ProcTable(p).cmdline)
        \/ ProcTable(p).name \in {W_chrome, W_chromium, W_chromedriver}}

\* -------------------------------------------------------- process tree
\* proc.children(): the live processes whose parent is p, as listed
Children(parents, order, p, live) ==
    SelectSeq(order, LAMBDA c : c \in live /\ parents[c] = p)

RECURSIVE Descend(_, _, _, _)
RECURSIVE DescendAll(_, _, _, _)
\* p, then the subtree of each live child
Descend(parents, order, p, live) ==
    <<p>> \o DescendAll(parents, order, Children(parents, order, p, live), live)
DescendAll(parents, order, cs, live) ==
    IF cs = <<>> THEN <<>>
    ELSE Descend(parents, order, Head(cs), live)
            \o DescendAll(parents, order, Tail(cs), live)

\* (faulty variant of ResolveTree: only the direct children are added)
ResolveTreeOneLevel(parents, order, pid, live, gone) ==
    IF pid \notin live THEN <<>>
    ELSE IF pid \in gone THEN <<pid>>
    ELSE <<pid>> \o Children(parents, order, pid, live \ gone)

\* The body of _get_process_tree over any parent relation.
\* psutil.Process(pid) raises NoSuchProcess when the root is not there and
\* the list stays empty; a root that vanishes after it was appended makes
\* children() raise and the list holds the root alone; children() itself
\* passes over the processes that vanish while it walks.
ResolveTree(parents, order, pid, live, gone) ==
    IF pid \notin live THEN <<>>
    ELSE IF pid \in gone THEN <<pid>>
    ELSE Descend(parents, order, pid, live \ gone)

\* the parent ids and the listing order of the process table
TableParents == [p \in Pids |-> ProcTable(p).ppid]
TableOrder == SetToSeq(Pids)

\* ChromeWithProperCleanup._get_process_tree: [pid] + children(recursive),
\* [] when the root has vanished
GetProcessTree(pid, live) == ResolveTree(TableParents, TableOrder, pid, live, {})

\* ------------------------------------------------------------ signals
\* What an attempt to signal p meets.
Attempt(p) ==
    IF p \notin alive THEN "gone" ELSE IF p \in denied THEN "denied" ELSE "sent"

SigR(step, p, sig, res) ==
    [step |-> step, pid |-> p, sig |-> sig, res |-> res]

Sig(step, p, sig) == SigR(step, p, sig, Attempt(p))

\* One entry of kill_log: a signal to tree_pid within the tree of root;
\* outlived tells whether the process was found running after the signal.
Logged(root, tree_pid, sig, res, outlived) ==
    [root |-> root, pid |-> tree_pid, sig |-> sig, res |-> res,
     outlived |-> outlived]

\* Python values a function hands back: nothing yet, None, or an int
NotReturned == [type |-> "unset", n |-> 0]
PyNone == [type |-> "None", n |-> 0]
PyInt(i) == [type |-> "int", n |-> i]

\* the driver object the k-th successful call of init_chromium returns
Handle(k) == [type |-> "WebDriver", n |-> k]

\* esc_start before the kill step of a release has begun
NotEscalated == [ran |-> FALSE, empty |-> FALSE, live |-> {}]

\* esc_start when the kill step begins
EscalationStart ==
    [ran |-> TRUE, empty |-> spawned_pids = {},
     live |-> IF spawned_pids = {} THEN alive ELSE {}]

\* ---------------------------------------------------------------- Init
\* the controller's fields after __init__, and the bookkeeping of a release
\* that has not begun
Constructed ==
    /\ driver = "None"
    /\ chrome_pids = {}
    /\ initial_ports = {}
    /\ spawned_pids = {}
    /\ chromedriver_pid = 0
    /\ chrome_ports = {}
    /\ user_data_dir = "None"
    /\ pc = "init"
    /\ outer = <<>>
    /\ todo = <<>>
    /\ cur = 0
    /\ elapsed = 0
    /\ cleanup_success = "unset"
    /\ remaining = {}
    /\ releases = 0
    /\ workflow_exc = FALSE
    /\ exc_out = "none"
    /\ steps = <<>>
    /\ sigs = {}
    /\ quit_calls = 0
    /\ quit_raised = FALSE
    /\ npolls = 0
    /\ busy_polls = 0
    /\ quiet_at = -1
    /\ verify_scans = 0
    /\ entered = FALSE
    /\ esc_start = NotEscalated
    /\ tree_pids = <<>>
    /\ kill_log = <<>>
    /\ verify_ret = NotReturned
    /\ first_scan = {}
    /\ verify_kills = 0

\* no snapshot pair is under study
NoSnapshots ==
    /\ pids_before = {}
    /\ pids_after = {}
    /\ spawn_delta = {}
    /\ delta_done = FALSE

\* the Thread objects the scheduler can create
Workers == 1..MaxWorkers

\* main.py as imported: no trigger has fired
ModuleLoaded ==
    /\ shared_driver = PyNone
    /\ launches = 0
    /\ wdriver = [w \in Workers |-> PyNone]
    /\ driver_lock = 0
    /\ active_threads = [k \in {} |-> 0]
    /\ thread_id = 0
    /\ thread = 0
    /\ spc = "idle"
    /\ wpc = [w \in Workers |-> "new"]
    /\ wid = [w \in Workers |-> 0]
    /\ wout = [w \in Workers |-> "none"]

\* no list of records is under study
NoRecords ==
    /\ records = <<>>
    /\ scanned = [k \in Kinds |-> {}]
    /\ scan_done = FALSE

\* no process graph is under study
NoGraph ==
    /\ parent_of = <<>>
    /\ listing = <<>>
    /\ tree_root = 0
    /\ tree_gone = {}
    /\ resolved = FALSE

\* no calendar is under study
NoCalendar ==
    /\ calendar_rows = <<>>
    /\ prefer_dates = <<>>
    /\ chosen_date = PyNone
    /\ available_dates = {}
    /\ find_done = FALSE

Init ==
    /\ kind \in Kinds
    /\ alive \in SUBSET PreExisting
    /\ denied \in SUBSET DeniedCandidates
    /\ cleanup_timeout \in (IF kind = "Ultra" THEN {MaxTimeout} ELSE 0..MaxTimeout)
    /\ Constructed
    /\ NoSnapshots
    /\ ModuleLoaded
    /\ NoCalendar
    /\ NoGraph
    /\ NoRecords

\* ------------------------------------------------------------- acquire
\* __enter__, first part: the pre-launch snapshot (and, for Ultra, the
\* ports snapshot and the profile directory of _create_isolated_chrome_options)
Enter_Snapshot ==
    /\ pc = "init"
    /\ chrome_pids' = Scan(kind, alive)
    /\ initial_ports' = IF kind = "Ultra" THEN GetChromeRelatedPorts(alive) ELSE {}
    /\ user_data_dir' = IF kind = "Ultra" THEN "Dir" ELSE user_data_dir
    /\ pc' = "launch"
    /\ UNCHANGED <<kind, alive, denied, cleanup_timeout, driver,
                   spawned_pids, chromedriver_pid, chrome_ports, outer, todo,
                   cur, elapsed, cleanup_success, remaining, releases,
                   workflow_exc, exc_out, steps, sigs, quit_calls,
                   quit_raised, npolls, busy_polls, quiet_at, verify_scans,
                   entered, first_scan, verify_kills, verify_ret, tree_pids,
                   kill_log, esc_start, pids_before, pids_after, spawn_delta,
                   delta_done, shared_driver, launches, wdriver, driver_lock,
                   active_threads, thread_id, thread, spc, wpc, wid, wout,
                   records, scanned, scan_done, parent_of, listing,
                   tree_root, tree_gone, resolved, calendar_rows,
                   prefer_dates, chosen_date, available_dates, find_done>>

\* webdriver.Chrome(options=options) returns: the session's processes run.
\* Proper reads driver.service.process.pid when the client exposes it.
Enter_Launch ==
    /\ pc = "launch"
    /\ driver' = "Driver"
    /\ \E later \in SUBSET Renderers : alive' = alive \cup (SessionPids \ later)
    /\ \E exposes \in BOOLEAN :
         IF kind = "Proper" /\ exposes
         THEN /\ chromedriver_pid' = Min(SessionPids)
              /\ spawned_pids' = spawned_pids \cup {Min(SessionPids)}
         ELSE /\ chromedriver_pid' = chromedriver_pid
              /\ spawned_pids' = spawned_pids
    /\ pc' = "track"
    /\ UNCHANGED <<kind, denied, cleanup_timeout, chrome_pids, initial_ports,
                   chrome_ports, user_data_dir, outer, todo, cur, elapsed,
                   cleanup_success, remaining, releases, workflow_exc,
                   exc_out, steps, sigs, quit_calls, quit_raised, npolls,
                   busy_polls, quiet_at, verify_scans, entered, first_scan,
                   verify_kills, verify_ret, tree_pids, kill_log, esc_start,
                   pids_before, pids_after, spawn_delta, delta_done,
                   shared_driver, launches, wdriver, driver_lock,
                   active_threads, thread_id, thread, spc, wpc, wid, wout,
                   records, scanned, scan_done, parent_of, listing,
                   tree_root, tree_gone, resolved, calendar_rows,
                   prefer_dates, chosen_date, available_dates, find_done>>

\* webdriver.Chrome raises (for Ultra: also with the minimal options):
\* __enter__ raises and the with statement never calls __exit__.
Enter_LaunchFails ==
    /\ pc = "launch"
    /\ pc' = "enter_failed"
    /\ UNCHANGED <<kind, alive, denied, cleanup_timeout, driver, chrome_pids,
                   initial_ports, spawned_pids, chromedriver_pid,
                   chrome_ports, user_data_dir, outer, todo, cur, elapsed,
                   cleanup_success, remaining, releases, workflow_exc,
                   exc_out, steps, sigs, quit_calls, quit_raised, npolls,
                   busy_polls, quiet_at, verify_scans, entered, first_scan,
                   verify_kills, verify_ret, tree_pids, kill_log, esc_start,
                   pids_before, pids_after, spawn_delta, delta_done,
                   shared_driver, launches, wdriver, driver_lock,
                   active_threads, thread_id, thread, spc, wpc, wid, wout,
                   records, scanned, scan_done, parent_of, listing,
                   tree_root, tree_gone, resolved, calendar_rows,
                   prefer_dates, chosen_date, available_dates, find_done>>

\* (faulty variant of FindChromedriver: the test on name and command line
\* is dropped, so the last process listed is taken)
FindChromedriverUntested(live) ==
    IF live = {} THEN 0 ELSE CHOOSE p \in live : \A q \in live : q <= p

\* the loop of ChromeWithProperCleanup._find_and_track_chromedriver:
\* the first process, in process_iter's ascending id order, that matches
FindChromedriver(live) ==
    LET hits == {p \in live :
                    \/ Contains(W_chromedriver, Lower(InfoOf(p).name))
                    \/ Contains(W_port, InfoOf(p).cmdline)}
    IN  IF hits = {} THEN 0 ELSE Min(hits)

\* ChromeUltraAggressiveCleanup._find_chromedriver_pid: the first tracked id
\* whose command line can be read and matches
FindChromedriverPid(tracked, live) ==
    LET hits == {p \in (tracked \cap live) \ denied :
                    \/ Contains(W_chromedriver, Lower(ProcTable(p).cmdline))
                    \/ Contains(W_port, ProcTable(p).cmdline)}
    IN  IF hits = {} THEN 0 ELSE Min(hits)

\* (faulty variant of Delta: the snapshot before launch is not subtracted)
DeltaKeepsAll(before, after) == after

\* the spawn-delta: current_pids - existing_pids
Delta(before, after) == after \ before

\* __enter__, after the settle delay: the spawn-delta and the primary id
Enter_Track ==
    /\ pc = "track"
    /\ LET current_pids == Scan(kind, alive)
           delta == Delta(chrome_pids, current_pids)
       IN  CASE kind = "Full" ->
                  /\ spawned_pids' = delta
                  /\ chromedriver_pid' = chromedriver_pid
                  /\ chrome_ports' = chrome_ports
             [] kind = "Proper" ->
                  LET found == IF chromedriver_pid = 0
                               THEN FindChromedriver(alive) ELSE chromedriver_pid
                  IN  /\ chromedriver_pid' = found
                      /\ spawned_pids' = (spawned_pids \cup delta)
                                            \cup (IF found = 0 THEN {} ELSE {found})
                      /\ chrome_ports' = chrome_ports
             [] OTHER ->
                  /\ spawned_pids' = delta
                  /\ chrome_ports' = GetChromeRelatedPorts(alive) \ initial_ports
                  /\ chromedriver_pid' = FindChromedriverPid(delta, alive)
    /\ entered' = TRUE
    /\ pc' = "body"
    /\ UNCHANGED <<kind, alive, denied, cleanup_timeout, driver, chrome_pids,
                   initial_ports, user_data_dir, outer, todo, cur, elapsed,
                   cleanup_success, remaining, releases, workflow_exc,
                   exc_out, steps, sigs, quit_calls, quit_raised, npolls,
                   busy_polls, quiet_at, verify_scans, first_scan,
                   verify_kills, verify_ret, tree_pids, kill_log, esc_start,
                   pids_before, pids_after, spawn_delta, delta_done,
                   shared_driver, launches, wdriver, driver_lock,
                   active_threads, thread_id, thread, spc, wpc, wid, wout,
                   records, scanned, scan_done, parent_of, listing,
                   tree_root, tree_gone, resolved, calendar_rows,
                   prefer_dates, chosen_date, available_dates, find_done>>

\* the body of the with statement ends normally
Body_Return ==
    /\ pc = "body"
    /\ workflow_exc' = FALSE
    /\ pc' = "exit"
    /\ UNCHANGED <<kind, alive, denied, cleanup_timeout, driver, chrome_pids,
                   initial_ports, spawned_pids, chromedriver_pid,
                   chrome_ports, user_data_dir, outer, todo, cur, elapsed,
                   cleanup_success, remaining, releases, exc_out, steps,
                   sigs, quit_calls, quit_raised, npolls, busy_polls,
                   quiet_at, verify_scans, entered, first_scan, verify_kills,
                   verify_ret, tree_pids, kill_log, esc_start, pids_before,
                   pids_after, spawn_delta, delta_done, shared_driver,
                   launches, wdriver, driver_lock, active_threads, thread_id,
                   thread, spc, wpc, wid, wout, records, scanned, scan_done,
                   parent_of, listing, tree_root, tree_gone, resolved,
                   calendar_rows, prefer_dates, chosen_date, available_dates,
                   find_done>>

\* the body of the with statement raises
Body_Raise ==
    /\ pc = "body"
    /\ workflow_exc' = TRUE
    /\ pc' = "exit"
    /\ UNCHANGED <<kind, alive, denied, cleanup_timeout, driver, chrome_pids,
                   initial_ports, spawned_pids, chromedriver_pid,
                   chrome_ports, user_data_dir, outer, todo, cur, elapsed,
                   cleanup_success, remaining, releases, exc_out, steps,
                   sigs, quit_calls, quit_raised, npolls, busy_polls,
                   quiet_at, verify_scans, entered, first_scan, verify_kills,
                   verify_ret, tree_pids, kill_log, esc_start, pids_before,
                   pids_after, spawn_delta, delta_done, shared_driver,
                   launches, wdriver, driver_lock, active_threads, thread_id,
                   thread, spc, wpc, wid, wout, records, scanned, scan_done,
                   parent_of, listing, tree_root, tree_gone, resolved,
                   calendar_rows, prefer_dates, chosen_date, available_dates,
                   find_done>>

\* The browser starts a renderer while the workflow runs, after the
\* controller took its snapshots: a family process the tracked set misses.
ProcSpawn(p) ==
    /\ pc = "body"
    /\ p \in Renderers \ alive
    /\ ProcTable(p).ppid \in alive
    /\ alive' = alive \cup {p}
    /\ UNCHANGED <<kind, denied, cleanup_timeout, driver, chrome_pids,
                   initial_ports, spawned_pids, chromedriver_pid,
                   chrome_ports, user_data_dir, pc, outer, todo, cur,
                   elapsed, cleanup_success, remaining, releases,
                   workflow_exc, exc_out, steps, sigs, quit_calls,
                   quit_raised, npolls, busy_polls, quiet_at, verify_scans,
                   entered, first_scan, verify_kills, verify_ret, tree_pids,
                   kill_log, esc_start, pids_before, pids_after, spawn_delta,
                   delta_done, shared_driver, launches, wdriver, driver_lock,
                   active_threads, thread_id, thread, spc, wpc, wid, wout,
                   records, scanned, scan_done, parent_of, listing,
                   tree_root, tree_gone, resolved, calendar_rows,
                   prefer_dates, chosen_date, available_dates, find_done>>

\* An unrelated process starts while __enter__ sleeps between its two
\* snapshots.
UnrelatedStart(p) ==
    /\ pc = "track"
    /\ p \in Unrelated \ alive
    /\ alive' = alive \cup {p}
    /\ UNCHANGED <<kind, denied, cleanup_timeout, driver, chrome_pids,
                   initial_ports, spawned_pids, chromedriver_pid,
                   chrome_ports, user_data_dir, pc, outer, todo, cur,
                   elapsed, cleanup_success, remaining, releases,
                   workflow_exc, exc_out, steps, sigs, quit_calls,
                   quit_raised, npolls, busy_polls, quiet_at, verify_scans,
                   entered, first_scan, verify_kills, verify_ret, tree_pids,
                   kill_log, esc_start, pids_before, pids_after, spawn_delta,
                   delta_done, shared_driver, launches, wdriver, driver_lock,
                   active_threads, thread_id, thread, spc, wpc, wid, wout,
                   records, scanned, scan_done, parent_of, listing,
                   tree_root, tree_gone, resolved, calendar_rows,
                   prefer_dates, chosen_date, available_dates, find_done>>

\* A process exits on its own (the client's quit took effect, a crash, the
\* user closed a browser): the race every scan and signal runs against.
ProcExit(p) ==
    /\ p \in alive
    /\ pc \notin {"init", "launch", "enter_failed", "raised"}
    /\ ~(pc = "returned" /\ releases = MaxReleases)
    /\ alive' = alive \ {p}
    /\ quiet_at' =
         IF pc \in {"wait_check", "wait_sleep"} /\ quiet_at = -1
                /\ spawned_pids \cap (alive \ {p}) = {}
         THEN (IF pc = "wait_check" THEN elapsed ELSE elapsed + 1)
         ELSE quiet_at
    /\ UNCHANGED <<kind, denied, cleanup_timeout, driver, chrome_pids,
                   initial_ports, spawned_pids, chromedriver_pid,
                   chrome_ports, user_data_dir, pc, outer, todo, cur,
                   elapsed, cleanup_success, remaining, releases,
                   workflow_exc, exc_out, steps, sigs, quit_calls,
                   quit_raised, npolls, busy_polls, verify_scans, entered,
                   first_scan, verify_kills, verify_ret, tree_pids, kill_log,
                   esc_start, pids_before, pids_after, spawn_delta,
                   delta_done, shared_driver, launches, wdriver, driver_lock,
                   active_threads, thread_id, thread, spc, wpc, wid, wout,
                   records, scanned, scan_done, parent_of, listing,
                   tree_root, tree_gone, resolved, calendar_rows,
                   prefer_dates, chosen_date, available_dates, find_done>>

\* ------------------------------------------------------------- release
\* __exit__ is called: by the with statement, again by hand afterwards, or
\* by hand on a controller whose __enter__ did not run or raised at launch
Exit_Begin ==
    /\ pc \in {"init", "enter_failed", "exit", "returned"}
    /\ releases < MaxReleases
    /\ releases' = releases + 1
    /\ steps' = <<>>
    /\ sigs' = {}
    /\ cleanup_success' = "unset"
    /\ quit_calls' = 0
    /\ quit_raised' = FALSE
    /\ npolls' = 0
    /\ busy_polls' = 0
    /\ quiet_at' = -1
    /\ verify_scans' = 0
    /\ esc_start' = NotEscalated
    /\ tree_pids' = <<>>
    /\ kill_log' = <<>>
    /\ verify_ret' = NotReturned
    /\ first_scan' = {}
    /\ verify_kills' = 0
    /\ remaining' = {}
    /\ exc_out' = "none"
    /\ outer' = <<>>
    /\ todo' = <<>>
    /\ cur' = 0
    /\ elapsed' = 0
    /\ pc' = "quit"
    /\ UNCHANGED <<kind, alive, denied, cleanup_timeout, driver, chrome_pids,
                   initial_ports, spawned_pids, chromedriver_pid,
                   chrome_ports, user_data_dir, workflow_exc, entered,
                   pids_before, pids_after, spawn_delta, delta_done,
                   shared_driver, launches, wdriver, driver_lock,
                   active_threads, thread_id, thread, spc, wpc, wid, wout,
                   records, scanned, scan_done, parent_of, listing,
                   tree_root, tree_gone, resolved, calendar_rows,
                   prefer_dates, chosen_date, available_dates, find_done>>

\* `if self.driver:`
DriverPresent == driver = "Driver"

\* (faulty variant of QuitErrorSwallowed: the error of driver.quit() is not caught)
QuitErrorEscapes(k) == FALSE

\* the except clause around driver.quit(): `except:` (Full),
\* `except Exception:` (Proper, Ultra)
QuitErrorSwallowed(k) == TRUE

\* Step 1 of every __exit__ (Ultra: _strategy_normal_cleanup)
Quit ==
    /\ pc = "quit"
    /\ steps' = Append(steps, "quit")
    /\ IF DriverPresent
       THEN /\ quit_calls' = quit_calls + 1
            /\ \E raises \in BOOLEAN :
                 /\ quit_raised' = raises
                 /\ IF raises /\ ~QuitErrorSwallowed(kind)
                    THEN /\ exc_out' = "WebDriverException"
                         /\ pc' = "raised"
                    ELSE /\ exc_out' = exc_out
                         /\ pc' = IF kind = "Ultra" THEN "u_tree_begin" ELSE "wait_begin"
       ELSE /\ quit_calls' = quit_calls
            /\ quit_raised' = quit_raised
            /\ exc_out' = exc_out
            /\ pc' = IF kind = "Ultra" THEN "u_tree_begin" ELSE "wait_begin"
    /\ UNCHANGED <<kind, alive, denied, cleanup_timeout, driver, chrome_pids,
                   initial_ports, spawned_pids, chromedriver_pid,
                   chrome_ports, user_data_dir, outer, todo, cur, elapsed,
                   cleanup_success, remaining, releases, workflow_exc, sigs,
                   npolls, busy_polls, quiet_at, verify_scans, entered,
                   first_scan, verify_kills, verify_ret, tree_pids, kill_log,
                   esc_start, pids_before, pids_after, spawn_delta,
                   delta_done, shared_driver, launches, wdriver, driver_lock,
                   active_threads, thread_id, thread, spc, wpc, wid, wout,
                   records, scanned, scan_done, parent_of, listing,
                   tree_root, tree_gone, resolved, calendar_rows,
                   prefer_dates, chosen_date, available_dates, find_done>>

\* _wait_for_process_cleanup: start_time = time.time()
Wait_Begin ==
    /\ pc = "wait_begin"
    /\ steps' = Append(steps, "wait")
    /\ elapsed' = 0
    /\ quiet_at' = IF spawned_pids \cap alive = {} THEN 0 ELSE -1
    /\ pc' = "wait_check"
    /\ UNCHANGED <<kind, alive, denied, cleanup_timeout, driver, chrome_pids,
                   initial_ports, spawned_pids, chromedriver_pid,
                   chrome_ports, user_data_dir, outer, todo, cur,
                   cleanup_success, remaining, releases, workflow_exc,
                   exc_out, sigs, quit_calls, quit_raised, npolls,
                   busy_polls, verify_scans, entered, first_scan,
                   verify_kills, verify_ret, tree_pids, kill_log, esc_start,
                   pids_before, pids_after, spawn_delta, delta_done,
                   shared_driver, launches, wdriver, driver_lock,
                   active_threads, thread_id, thread, spc, wpc, wid, wout,
                   records, scanned, scan_done, parent_of, listing,
                   tree_root, tree_gone, resolved, calendar_rows,
                   prefer_dates, chosen_date, available_dates, find_done>>

\* (faulty variant of WaitTimeLeft: the loop gives up one poll interval early)
WaitTimeLeftShort == elapsed + 1 < cleanup_timeout

\* `while time.time() - start_time < self.cleanup_timeout`
WaitTimeLeft == elapsed < cleanup_timeout

\* (faulty variant of RunningPids: running_pids is never filled)
RunningPidsNeverFilled == {}

\* running_pids of one poll: the tracked ids psutil.Process(pid) finds
RunningPids == spawned_pids \cap alive

\* (faulty variant of Escalate: the kill step runs whatever the wait returned)
EscalateAlways(success) == TRUE

\* `if not cleanup_success:` of __exit__
Escalate(success) == success = "false"

\* where __exit__ goes when the wait has returned
AfterWait(success) ==
    IF Escalate(success)
    THEN (IF kind = "Full" THEN "f_kill_begin" ELSE "p_force")
    ELSE (IF kind = "Full" THEN "return" ELSE "p_verify")

\* hasattr(self, "spawned_pids"): ChromeWithFullCleanup.__init__ does not
\* create the attribute, its __enter__ does on its last assignment
HasSpawnedPids == kind # "Full" \/ entered

\* one turn of the wait loop up to its sleep: the loop test and the poll
\* (`for pid in self.spawned_pids` raises when the attribute is missing)
Wait_Check ==
    /\ pc = "wait_check"
    /\ IF WaitTimeLeft /\ ~HasSpawnedPids
       THEN /\ exc_out' = "AttributeError"
            /\ pc' = "raised"
            /\ UNCHANGED <<npolls, busy_polls, cleanup_success>>
       ELSE IF WaitTimeLeft
       THEN /\ npolls' = npolls + 1
            /\ busy_polls' = IF spawned_pids \cap alive = {}
                              THEN busy_polls ELSE busy_polls + 1
            /\ exc_out' = exc_out
            /\ IF RunningPids = {}
               THEN /\ cleanup_success' = "true"
                    /\ pc' = AfterWait("true")
               ELSE /\ cleanup_success' = cleanup_success
                    /\ pc' = "wait_sleep"
       ELSE /\ npolls' = npolls
            /\ busy_polls' = busy_polls
            /\ exc_out' = exc_out
            /\ cleanup_success' = "false"
            /\ pc' = AfterWait("false")
    /\ UNCHANGED <<kind, alive, denied, cleanup_timeout, driver, chrome_pids,
                   initial_ports, spawned_pids, chromedriver_pid,
                   chrome_ports, user_data_dir, outer, todo, cur, elapsed,
                   remaining, releases, workflow_exc, steps, sigs,
                   quit_calls, quit_raised, quiet_at, verify_scans, entered,
                   first_scan, verify_kills, verify_ret, tree_pids, kill_log,
                   esc_start, pids_before, pids_after, spawn_delta,
                   delta_done, shared_driver, launches, wdriver, driver_lock,
                   active_threads, thread_id, thread, spc, wpc, wid, wout,
                   records, scanned, scan_done, parent_of, listing,
                   tree_root, tree_gone, resolved, calendar_rows,
                   prefer_dates, chosen_date, available_dates, find_done>>

\* time.sleep(0.2): one poll interval
Wait_Sleep ==
    /\ pc = "wait_sleep"
    /\ elapsed' = elapsed + 1
    /\ pc' = "wait_check"
    /\ UNCHANGED <<kind, alive, denied, cleanup_timeout, driver, chrome_pids,
                   initial_ports, spawned_pids, chromedriver_pid,
                   chrome_ports, user_data_dir, outer, todo, cur,
                   cleanup_success, remaining, releases, workflow_exc,
                   exc_out, steps, sigs, quit_calls, quit_raised, npolls,
                   busy_polls, quiet_at, verify_scans, entered, first_scan,
                   verify_kills, verify_ret, tree_pids, kill_log, esc_start,
                   pids_before, pids_after, spawn_delta, delta_done,
                   shared_driver, launches, wdriver, driver_lock,
                   active_threads, thread_id, thread, spc, wpc, wid, wout,
                   records, scanned, scan_done, parent_of, listing,
                   tree_root, tree_gone, resolved, calendar_rows,
                   prefer_dates, chosen_date, available_dates, find_done>>

\* `return False` of __exit__
ExitReturnValue == FALSE

\* __exit__ returns (Full, Ultra)
Exit_Return ==
    /\ pc = "return"
    /\ pc' = "returned"
    /\ UNCHANGED <<kind, alive, denied, cleanup_timeout, driver, chrome_pids,
                   initial_ports, spawned_pids, chromedriver_pid,
                   chrome_ports, user_data_dir, outer, todo, cur, elapsed,
                   cleanup_success, remaining, releases, workflow_exc,
                   exc_out, steps, sigs, quit_calls, quit_raised, npolls,
                   busy_polls, quiet_at, verify_scans, entered, first_scan,
                   verify_kills, verify_ret, tree_pids, kill_log, esc_start,
                   pids_before, pids_after, spawn_delta, delta_done,
                   shared_driver, launches, wdriver, driver_lock,
                   active_threads, thread_id, thread, spc, wpc, wid, wout,
                   records, scanned, scan_done, parent_of, listing,
                   tree_root, tree_gone, resolved, calendar_rows,
                   prefer_dates, chosen_date, available_dates, find_done>>

\* ----------------------------------------------- ChromeWithFullCleanup
\* _kill_chrome_processes is entered: `for pid in self.spawned_pids`
\* (AttributeError when the attribute is missing)
Full_KillBegin ==
    /\ pc = "f_kill_begin"
    /\ steps' = Append(steps, "kill")
    /\ esc_start' = EscalationStart
    /\ IF HasSpawnedPids
       THEN /\ todo' = SetToSeq(spawned_pids)
            /\ exc_out' = exc_out
            /\ pc' = "f_kill"
       ELSE /\ todo' = todo
            /\ exc_out' = "AttributeError"
            /\ pc' = "raised"
    /\ UNCHANGED <<kind, alive, denied, cleanup_timeout, driver, chrome_pids,
                   initial_ports, spawned_pids, chromedriver_pid,
                   chrome_ports, user_data_dir, outer, cur, elapsed,
                   cleanup_success, remaining, releases, workflow_exc, sigs,
                   quit_calls, quit_raised, npolls, busy_polls, quiet_at,
                   verify_scans, entered, first_scan, verify_kills,
                   verify_ret, tree_pids, kill_log, pids_before, pids_after,
                   spawn_delta, delta_done, shared_driver, launches, wdriver,
                   driver_lock, active_threads, thread_id, thread, spc, wpc,
                   wid, wout, records, scanned, scan_done, parent_of,
                   listing, tree_root, tree_gone, resolved, calendar_rows,
                   prefer_dates, chosen_date, available_dates, find_done>>

\* One turn of the loop of _kill_chrome_processes: os.kill(pid, SIGTERM);
\* ProcessLookupError is passed over, any other error is printed.
Full_Kill ==
    /\ pc = "f_kill"
    /\ IF todo = <<>>
       THEN /\ pc' = "f_sweep_begin"
            /\ UNCHANGED <<todo, sigs, alive>>
       ELSE LET p == Head(todo) IN
            /\ sigs' = sigs \cup {Sig("kill", p, "TERM")}
            /\ todo' = Tail(todo)
            /\ pc' = pc
            /\ alive' \in (IF Attempt(p) = "sent" THEN {alive, alive \ {p}} ELSE {alive})
    /\ UNCHANGED <<kind, denied, cleanup_timeout, driver, chrome_pids,
                   initial_ports, spawned_pids, chromedriver_pid,
                   chrome_ports, user_data_dir, outer, cur, elapsed,
                   cleanup_success, remaining, releases, workflow_exc,
                   exc_out, steps, quit_calls, quit_raised, npolls,
                   busy_polls, quiet_at, verify_scans, entered, first_scan,
                   verify_kills, verify_ret, tree_pids, kill_log, esc_start,
                   pids_before, pids_after, spawn_delta, delta_done,
                   shared_driver, launches, wdriver, driver_lock,
                   active_threads, thread_id, thread, spc, wpc, wid, wout,
                   records, scanned, scan_done, parent_of, listing,
                   tree_root, tree_gone, resolved, calendar_rows,
                   prefer_dates, chosen_date, available_dates, find_done>>

\* _force_kill_all_chrome is entered: process_iter lists the process ids
Full_SweepBegin ==
    /\ pc = "f_sweep_begin"
    /\ steps' = Append(steps, "sweep")
    /\ todo' = SetToSeq(alive)
    /\ pc' = "f_fetch"
    /\ UNCHANGED <<kind, alive, denied, cleanup_timeout, driver, chrome_pids,
                   initial_ports, spawned_pids, chromedriver_pid,
                   chrome_ports, user_data_dir, outer, cur, elapsed,
                   cleanup_success, remaining, releases, workflow_exc,
                   exc_out, sigs, quit_calls, quit_raised, npolls,
                   busy_polls, quiet_at, verify_scans, entered, first_scan,
                   verify_kills, verify_ret, tree_pids, kill_log, esc_start,
                   pids_before, pids_after, spawn_delta, delta_done,
                   shared_driver, launches, wdriver, driver_lock,
                   active_threads, thread_id, thread, spc, wpc, wid, wout,
                   records, scanned, scan_done, parent_of, listing,
                   tree_root, tree_gone, resolved, calendar_rows,
                   prefer_dates, chosen_date, available_dates, find_done>>

\* (faulty variant of SweepSelects: the sweep signals every process it is given)
SweepSelectsAll(p) == p \in alive

\* the sweep takes a listed process when it is still there and its name
\* passes the keyword test
SweepSelects(p) == p \in alive /\ FullSweepMatch(InfoOf(p))

\* process_iter yields the next process that is still there and the keyword
\* test is made on its name; the loop ends when the list is exhausted
Full_SweepFetch ==
    /\ pc = "f_fetch"
    /\ IF todo = <<>>
       THEN /\ pc' = "return"
            /\ UNCHANGED <<todo, cur>>
       ELSE LET p == Head(todo) IN
            /\ todo' = Tail(todo)
            /\ IF SweepSelects(p)
               THEN cur' = p /\ pc' = "f_term"
               ELSE cur' = 0 /\ pc' = pc
    /\ UNCHANGED <<kind, alive, denied, cleanup_timeout, driver, chrome_pids,
                   initial_ports, spawned_pids, chromedriver_pid,
                   chrome_ports, user_data_dir, outer, elapsed,
                   cleanup_success, remaining, releases, workflow_exc,
                   exc_out, steps, sigs, quit_calls, quit_raised, npolls,
                   busy_polls, quiet_at, verify_scans, entered, first_scan,
                   verify_kills, verify_ret, tree_pids, kill_log, esc_start,
                   pids_before, pids_after, spawn_delta, delta_done,
                   shared_driver, launches, wdriver, driver_lock,
                   active_threads, thread_id, thread, spc, wpc, wid, wout,
                   records, scanned, scan_done, parent_of, listing,
                   tree_root, tree_gone, resolved, calendar_rows,
                   prefer_dates, chosen_date, available_dates, find_done>>

\* The outer `except (psutil.NoSuchProcess, psutil.AccessDenied)` of
\* _force_kill_all_chrome catches the builtin error os.kill raises.
SweepCatches(err) == err \notin {"ProcessLookupError", "PermissionError"}

\* proc.terminate(); proc.wait(timeout=2); on any error of these,
\* os.kill(pid, SIGKILL), whose own error only the outer except could catch.
Full_SweepTerminate ==
    /\ pc = "f_term"
    /\ cur' = 0
    /\ LET p == cur
           term == Sig("sweep", p, "TERM")
           fail(err, res) ==
               /\ sigs' = sigs \cup {term, SigR("sweep", p, "KILL", res)}
               /\ alive' = alive \ {p}
               /\ IF SweepCatches(err)
                  THEN pc' = "f_fetch" /\ exc_out' = exc_out
                  ELSE pc' = "raised" /\ exc_out' = err
       IN  CASE Attempt(p) = "gone" -> fail("ProcessLookupError", "gone")
             [] Attempt(p) = "denied" ->
                  /\ sigs' = sigs \cup {term, SigR("sweep", p, "KILL", "denied")}
                  /\ alive' = alive
                  /\ IF SweepCatches("PermissionError")
                     THEN pc' = "f_fetch" /\ exc_out' = exc_out
                     ELSE pc' = "raised" /\ exc_out' = "PermissionError"
             [] OTHER ->
                  \/ \* it exits within the two seconds
                     /\ sigs' = sigs \cup {term}
                     /\ alive' = alive \ {p}
                     /\ pc' = "f_fetch"
                     /\ exc_out' = exc_out
                  \/ \* TimeoutExpired, and SIGKILL ends it
                     /\ sigs' = sigs \cup {term, SigR("sweep", p, "KILL", "sent")}
                     /\ alive' = alive \ {p}
                     /\ pc' = "f_fetch"
                     /\ exc_out' = exc_out
                  \/ \* TimeoutExpired, and it exits just before the SIGKILL
                     fail("ProcessLookupError", "gone")
    /\ UNCHANGED <<kind, denied, cleanup_timeout, driver, chrome_pids,
                   initial_ports, spawned_pids, chromedriver_pid,
                   chrome_ports, user_data_dir, outer, todo, elapsed,
                   cleanup_success, remaining, releases, workflow_exc, steps,
                   quit_calls, quit_raised, npolls, busy_polls, quiet_at,
                   verify_scans, entered, first_scan, verify_kills,
                   verify_ret, tree_pids, kill_log, esc_start, pids_before,
                   pids_after, spawn_delta, delta_done, shared_driver,
                   launches, wdriver, driver_lock, active_threads, thread_id,
                   thread, spc, wpc, wid, wout, records, scanned, scan_done,
                   parent_of, listing, tree_root, tree_gone, resolved,
                   calendar_rows, prefer_dates, chosen_date, available_dates,
                   find_done>>

\* --------------------------------------------- ChromeWithProperCleanup
\* (faulty variant of PidsToKill: every process of the host is a root)
PidsToKillWholeHost(tracked, live) == tracked \cup live

\* pids_to_kill of _force_kill_process_tree: the tracked ids, updated with
\* the family processes of a fresh scan
PidsToKill(tracked, live) == tracked \cup Scan("Proper", live)

\* _force_kill_process_tree is entered: pids_to_kill is the tracked set
\* and every family process of a fresh scan
Proper_ForceBegin ==
    /\ pc = "p_force"
    /\ steps' = Append(steps, "force")
    /\ esc_start' = EscalationStart
    /\ outer' = SetToSeq(PidsToKill(spawned_pids, alive))
    /\ pc' = "p_tree"
    /\ UNCHANGED <<kind, alive, denied, cleanup_timeout, driver, chrome_pids,
                   initial_ports, spawned_pids, chromedriver_pid,
                   chrome_ports, user_data_dir, todo, cur, elapsed,
                   cleanup_success, remaining, releases, workflow_exc,
                   exc_out, sigs, quit_calls, quit_raised, npolls,
                   busy_polls, quiet_at, verify_scans, entered, first_scan,
                   verify_kills, verify_ret, tree_pids, kill_log,
                   pids_before, pids_after, spawn_delta, delta_done,
                   shared_driver, launches, wdriver, driver_lock,
                   active_threads, thread_id, thread, spc, wpc, wid, wout,
                   records, scanned, scan_done, parent_of, listing,
                   tree_root, tree_gone, resolved, calendar_rows,
                   prefer_dates, chosen_date, available_dates, find_done>>

\* (faulty variant of KillOrder: the tree is walked as resolved, root first)
KillOrderRootFirst(pids) == pids

\* `for tree_pid in reversed(tree_pids)`: leaves before the root
KillOrder(pids) == Reverse(pids)

\* (faulty variant of TrackedAfterForceKill: the tracked set is left as it was)
TrackedAfterForceKillKept(tracked) == tracked

\* `self.spawned_pids.clear()` at the end of _force_kill_process_tree
TrackedAfterForceKill(tracked) == {}

\* One turn of `for pid in pids_to_kill`: _kill_process_tree resolves the
\* tree of the next root.  When the roots are exhausted: time.sleep(1) and
\* self.spawned_pids.clear().
Proper_TreeResolve ==
    /\ pc = "p_tree"
    /\ IF outer = <<>>
       THEN /\ spawned_pids' = TrackedAfterForceKill(spawned_pids)
            /\ pc' = "p_verify"
            /\ UNCHANGED <<outer, todo, tree_pids>>
       ELSE LET found == GetProcessTree(Head(outer), alive) IN
            /\ outer' = Tail(outer)
            /\ tree_pids' = found
            /\ todo' = KillOrder(found)
            /\ pc' = IF found = <<>> THEN pc ELSE "p_kill"
            /\ spawned_pids' = spawned_pids
    /\ UNCHANGED <<kind, alive, denied, cleanup_timeout, driver, chrome_pids,
                   initial_ports, chromedriver_pid, chrome_ports,
                   user_data_dir, cur, elapsed, cleanup_success, remaining,
                   releases, workflow_exc, exc_out, steps, sigs, quit_calls,
                   quit_raised, npolls, busy_polls, quiet_at, verify_scans,
                   entered, first_scan, verify_kills, verify_ret, kill_log,
                   esc_start, pids_before, pids_after, spawn_delta,
                   delta_done, shared_driver, launches, wdriver, driver_lock,
                   active_threads, thread_id, thread, spc, wpc, wid, wout,
                   records, scanned, scan_done, parent_of, listing,
                   tree_root, tree_gone, resolved, calendar_rows,
                   prefer_dates, chosen_date, available_dates, find_done>>

\* One turn of the loop of _kill_process_tree(pid, force=True):
\* psutil.Process(tree_pid).kill(), NoSuchProcess and AccessDenied passed over
Proper_TreeKill ==
    /\ pc = "p_kill"
    /\ todo # <<>>
    /\ LET p == Head(todo) IN
       /\ sigs' = sigs \cup {Sig("force", p, "KILL")}
       /\ kill_log' = Append(kill_log,
                             Logged(tree_pids[1], p, "KILL", Attempt(p), FALSE))
       /\ alive' = IF Attempt(p) = "sent" THEN alive \ {p} ELSE alive
       /\ todo' = Tail(todo)
       /\ pc' = IF Tail(todo) = <<>> THEN "p_tree" ELSE pc
    /\ UNCHANGED <<kind, denied, cleanup_timeout, driver, chrome_pids,
                   initial_ports, spawned_pids, chromedriver_pid,
                   chrome_ports, user_data_dir, outer, cur, elapsed,
                   cleanup_success, remaining, releases, workflow_exc,
                   exc_out, steps, quit_calls, quit_raised, npolls,
                   busy_polls, quiet_at, verify_scans, entered, first_scan,
                   verify_kills, verify_ret, tree_pids, esc_start,
                   pids_before, pids_after, spawn_delta, delta_done,
                   shared_driver, launches, wdriver, driver_lock,
                   active_threads, thread_id, thread, spc, wpc, wid, wout,
                   records, scanned, scan_done, parent_of, listing,
                   tree_root, tree_gone, resolved, calendar_rows,
                   prefer_dates, chosen_date, available_dates, find_done>>

\* ChromeWithProperCleanup._verify_cleanup has no return statement: it
\* prints the number of remaining_pids and hands back None
ProperVerifyReturns(remaining_pids) == PyNone

\* _verify_cleanup is entered: the first rescan
Proper_Verify ==
    /\ pc = "p_verify"
    /\ steps' = Append(steps, "verify")
    /\ remaining' = Scan("Proper", alive)
    /\ verify_scans' = verify_scans + 1
    /\ first_scan' = IF verify_scans = 0 THEN Scan("Proper", alive) ELSE first_scan
    /\ todo' = SetToSeq(Scan("Proper", alive))
    /\ verify_ret' = IF Scan("Proper", alive) = {}
                     THEN ProperVerifyReturns(Scan("Proper", alive))
                     ELSE verify_ret
    /\ pc' = IF Scan("Proper", alive) = {} THEN "p_finally" ELSE "p_vkill"
    /\ UNCHANGED <<kind, alive, denied, cleanup_timeout, driver, chrome_pids,
                   initial_ports, spawned_pids, chromedriver_pid,
                   chrome_ports, user_data_dir, outer, cur, elapsed,
                   cleanup_success, releases, workflow_exc, exc_out, sigs,
                   quit_calls, quit_raised, npolls, busy_polls, quiet_at,
                   entered, verify_kills, tree_pids, kill_log, esc_start,
                   pids_before, pids_after, spawn_delta, delta_done,
                   shared_driver, launches, wdriver, driver_lock,
                   active_threads, thread_id, thread, spc, wpc, wid, wout,
                   records, scanned, scan_done, parent_of, listing,
                   tree_root, tree_gone, resolved, calendar_rows,
                   prefer_dates, chosen_date, available_dates, find_done>>

\* One turn of the verifier's kill pass: psutil.Process(pid).kill() under a
\* bare except
Proper_VerifyKill ==
    /\ pc = "p_vkill"
    /\ todo # <<>>
    /\ LET p == Head(todo) IN
       /\ sigs' = sigs \cup {Sig("verify", p, "KILL")}
       /\ verify_kills' = verify_kills + 1
       /\ alive' = IF Attempt(p) = "sent" THEN alive \ {p} ELSE alive
       /\ todo' = Tail(todo)
       /\ pc' = IF Tail(todo) = <<>> THEN "p_rescan" ELSE pc
    /\ UNCHANGED <<kind, denied, cleanup_timeout, driver, chrome_pids,
                   initial_ports, spawned_pids, chromedriver_pid,
                   chrome_ports, user_data_dir, outer, cur, elapsed,
                   cleanup_success, remaining, releases, workflow_exc,
                   exc_out, steps, quit_calls, quit_raised, npolls,
                   busy_polls, quiet_at, verify_scans, entered, first_scan,
                   verify_ret, tree_pids, kill_log, esc_start, pids_before,
                   pids_after, spawn_delta, delta_done, shared_driver,
                   launches, wdriver, driver_lock, active_threads, thread_id,
                   thread, spc, wpc, wid, wout, records, scanned, scan_done,
                   parent_of, listing, tree_root, tree_gone, resolved,
                   calendar_rows, prefer_dates, chosen_date, available_dates,
                   find_done>>

\* (faulty variant of AfterRescan: the verifier starts over while its
\* second scan finds processes)
AfterRescanLoops(remaining_pids) ==
    IF remaining_pids = {} THEN "p_finally" ELSE "p_verify"

\* after the second scan _verify_cleanup prints what remains and returns to
\* __exit__, whatever the scan found
AfterRescan(remaining_pids) == "p_finally"

\* time.sleep(0.5) and the verifier's second scan
Proper_VerifyRescan ==
    /\ pc = "p_rescan"
    /\ remaining' = Scan("Proper", alive)
    /\ verify_scans' = verify_scans + 1
    /\ verify_ret' = ProperVerifyReturns(Scan("Proper", alive))
    /\ pc' = AfterRescan(Scan("Proper", alive))
    /\ UNCHANGED <<kind, alive, denied, cleanup_timeout, driver, chrome_pids,
                   initial_ports, spawned_pids, chromedriver_pid,
                   chrome_ports, user_data_dir, outer, todo, cur, elapsed,
                   cleanup_success, releases, workflow_exc, exc_out, steps,
                   sigs, quit_calls, quit_raised, npolls, busy_polls,
                   quiet_at, entered, first_scan, verify_kills, tree_pids,
                   kill_log, esc_start, pids_before, pids_after, spawn_delta,
                   delta_done, shared_driver, launches, wdriver, driver_lock,
                   active_threads, thread_id, thread, spc, wpc, wid, wout,
                   records, scanned, scan_done, parent_of, listing,
                   tree_root, tree_gone, resolved, calendar_rows,
                   prefer_dates, chosen_date, available_dates, find_done>>

\* `finally: self.driver = None`, then `return False`
Proper_Finally ==
    /\ pc = "p_finally"
    /\ driver' = "None"
    /\ pc' = "returned"
    /\ UNCHANGED <<kind, alive, denied, cleanup_timeout, chrome_pids,
                   initial_ports, spawned_pids, chromedriver_pid,
                   chrome_ports, user_data_dir, outer, todo, cur, elapsed,
                   cleanup_success, remaining, releases, workflow_exc,
                   exc_out, steps, sigs, quit_calls, quit_raised, npolls,
                   busy_polls, quiet_at, verify_scans, entered, first_scan,
                   verify_kills, verify_ret, tree_pids, kill_log, esc_start,
                   pids_before, pids_after, spawn_delta, delta_done,
                   shared_driver, launches, wdriver, driver_lock,
                   active_threads, thread_id, thread, spc, wpc, wid, wout,
                   records, scanned, scan_done, parent_of, listing,
                   tree_root, tree_gone, resolved, calendar_rows,
                   prefer_dates, chosen_date, available_dates, find_done>>

\* ---------------------------------------- ChromeUltraAggressiveCleanup
\* (faulty variant of StrategyAfter: the name-based commands come before
\* the port-based kill)
StrategyAfterNameFirst(strategy) ==
    CASE strategy = "tree" -> "u_syscmd"
      [] strategy = "syscmd" -> "u_port_begin"
      [] strategy = "port" -> "u_userdata"
      [] OTHER -> "u_brute"

\* the order of the strategies in __exit__: where it goes when a strategy
\* has returned
StrategyAfter(strategy) ==
    CASE strategy = "tree" -> "u_port_begin"
      [] strategy = "port" -> "u_syscmd"
      [] strategy = "syscmd" -> "u_userdata"
      [] OTHER -> "u_brute"

TreePc(n) == IF n = 1 THEN "u_tree1" ELSE "u_tree2"
KillPc(n) == IF n = 1 THEN "u_kill1" ELSE "u_kill2"

\* _strategy_python_process_cleanup is entered (after the time.sleep(1)
\* that ends _strategy_normal_cleanup): `for pid in list(self.all_pids)`
Ultra_TreeBegin ==
    /\ pc = "u_tree_begin"
    /\ steps' = Append(steps, "tree")
    /\ esc_start' = EscalationStart
    /\ outer' = SetToSeq(spawned_pids)
    /\ pc' = TreePc(1)
    /\ UNCHANGED <<kind, alive, denied, cleanup_timeout, driver, chrome_pids,
                   initial_ports, spawned_pids, chromedriver_pid,
                   chrome_ports, user_data_dir, todo, cur, elapsed,
                   cleanup_success, remaining, releases, workflow_exc,
                   exc_out, sigs, quit_calls, quit_raised, npolls,
                   busy_polls, quiet_at, verify_scans, entered, first_scan,
                   verify_kills, verify_ret, tree_pids, kill_log,
                   pids_before, pids_after, spawn_delta, delta_done,
                   shared_driver, launches, wdriver, driver_lock,
                   active_threads, thread_id, thread, spc, wpc, wid, wout,
                   records, scanned, scan_done, parent_of, listing,
                   tree_root, tree_gone, resolved, calendar_rows,
                   prefer_dates, chosen_date, available_dates, find_done>>

\* One turn of either loop of _strategy_python_process_cleanup:
\* _kill_process_tree_aggressive resolves [pid] + children(recursive) and
\* returns False when the root has vanished.  After the first loop the
\* second runs over a fresh scan minus the tracked ids.
Ultra_TreeResolve ==
    \E n \in {1, 2} :
        /\ pc = TreePc(n)
        /\ IF outer = <<>>
           THEN /\ outer' = IF n = 1 THEN SetToSeq(Scan("Ultra", alive) \ spawned_pids)
                                      ELSE outer
                /\ UNCHANGED <<todo, tree_pids>>
                /\ pc' = IF n = 1 THEN TreePc(2) ELSE StrategyAfter("tree")
           ELSE LET all_pids == GetProcessTree(Head(outer), alive) IN
                /\ outer' = Tail(outer)
                /\ tree_pids' = all_pids
                /\ todo' = KillOrder(all_pids)
                /\ pc' = IF all_pids = <<>> THEN pc ELSE KillPc(n)
    /\ UNCHANGED <<kind, alive, denied, cleanup_timeout, driver, chrome_pids,
                   initial_ports, spawned_pids, chromedriver_pid,
                   chrome_ports, user_data_dir, cur, elapsed,
                   cleanup_success, remaining, releases, workflow_exc,
                   exc_out, steps, sigs, quit_calls, quit_raised, npolls,
                   busy_polls, quiet_at, verify_scans, entered, first_scan,
                   verify_kills, verify_ret, kill_log, esc_start,
                   pids_before, pids_after, spawn_delta, delta_done,
                   shared_driver, launches, wdriver, driver_lock,
                   active_threads, thread_id, thread, spc, wpc, wid, wout,
                   records, scanned, scan_done, parent_of, listing,
                   tree_root, tree_gone, resolved, calendar_rows,
                   prefer_dates, chosen_date, available_dates, find_done>>

\* (faulty variant of HardKill: proc.kill() follows every proc.terminate())
HardKillAlways(is_running) == TRUE

\* `if proc.is_running(): proc.kill()`
HardKill(is_running) == is_running

\* One turn of the loop of _kill_process_tree_aggressive: proc.terminate(),
\* time.sleep(0.1), and proc.kill() if proc.is_running().  The process
\* either exits on the soft signal within the pause or is found running.
Ultra_TreeKill ==
    \E n \in {1, 2} :
        /\ pc = KillPc(n)
        /\ todo # <<>>
        /\ LET p == Head(todo)
               term(is_running) ==
                   Logged(tree_pids[1], p, "TERM", Attempt(p), is_running)
               kill == Logged(tree_pids[1], p, "KILL", "sent", FALSE)
           IN
           /\ todo' = Tail(todo)
           /\ pc' = IF Tail(todo) = <<>> THEN TreePc(n) ELSE pc
           /\ IF Attempt(p) = "sent"
              THEN \E is_running \in BOOLEAN :
                     IF HardKill(is_running)
                     THEN /\ sigs' = sigs \cup {Sig("tree", p, "TERM"),
                                                 Sig("tree", p, "KILL")}
                          /\ kill_log' = kill_log \o <<term(is_running), kill>>
                          /\ alive' = alive \ {p}
                     ELSE /\ sigs' = sigs \cup {Sig("tree", p, "TERM")}
                          /\ kill_log' = Append(kill_log, term(is_running))
                          /\ alive' = IF is_running THEN alive ELSE alive \ {p}
              ELSE /\ alive' = alive
                   /\ sigs' = sigs \cup {Sig("tree", p, "TERM")}
                   /\ kill_log' = Append(kill_log, term(FALSE))
    /\ UNCHANGED <<kind, denied, cleanup_timeout, driver, chrome_pids,
                   initial_ports, spawned_pids, chromedriver_pid,
                   chrome_ports, user_data_dir, outer, cur, elapsed,
                   cleanup_success, remaining, releases, workflow_exc,
                   exc_out, steps, quit_calls, quit_raised, npolls,
                   busy_polls, quiet_at, verify_scans, entered, first_scan,
                   verify_kills, verify_ret, tree_pids, esc_start,
                   pids_before, pids_after, spawn_delta, delta_done,
                   shared_driver, launches, wdriver, driver_lock,
                   active_threads, thread_id, thread, spc, wpc, wid, wout,
                   records, scanned, scan_done, parent_of, listing,
                   tree_root, tree_gone, resolved, calendar_rows,
                   prefer_dates, chosen_date, available_dates, find_done>>

\* _strategy_port_cleanup is entered (after the time.sleep(1) that ends
\* strategy 2)
Ultra_PortBegin ==
    /\ pc = "u_port_begin"
    /\ steps' = Append(steps, "port")
    /\ todo' = SetToSeq(chrome_ports)
    /\ pc' = "u_port"
    /\ UNCHANGED <<kind, alive, denied, cleanup_timeout, driver, chrome_pids,
                   initial_ports, spawned_pids, chromedriver_pid,
                   chrome_ports, user_data_dir, outer, cur, elapsed,
                   cleanup_success, remaining, releases, workflow_exc,
                   exc_out, sigs, quit_calls, quit_raised, npolls,
                   busy_polls, quiet_at, verify_scans, entered, first_scan,
                   verify_kills, verify_ret, tree_pids, kill_log, esc_start,
                   pids_before, pids_after, spawn_delta, delta_done,
                   shared_driver, launches, wdriver, driver_lock,
                   active_threads, thread_id, thread, spc, wpc, wid, wout,
                   records, scanned, scan_done, parent_of, listing,
                   tree_root, tree_gone, resolved, calendar_rows,
                   prefer_dates, chosen_date, available_dates, find_done>>

\* the timeout argument of the subprocess.run calls, 0 when none is given
LsofTimeout == 0
SysCmdTimeout == 2

\* subprocess.run comes back, with a result or with TimeoutExpired, when the
\* command ends or when a timeout was given
RunComesBack(timeout, hangs) == ~hangs \/ timeout > 0

\* One turn of `for port in self.chrome_ports`: lsof -ti:port, then
\* os.kill(pid, SIGKILL) for each id it printed.  The call of lsof has no
\* timeout: when the command hangs, subprocess.run does not come back.
Ultra_Port ==
    /\ pc = "u_port"
    /\ IF todo = <<>>
       THEN /\ pc' = StrategyAfter("port")
            /\ UNCHANGED <<todo, sigs, alive>>
       ELSE \E hangs \in BOOLEAN :
            IF RunComesBack(LsofTimeout, hangs)
            THEN LET pids == IF hangs THEN {} ELSE LsofPids(Head(todo), alive) IN
                 /\ sigs' = sigs \cup {SigR("port", p, "KILL", "sent") : p \in pids}
                 /\ alive' = alive \ pids
                 /\ todo' = Tail(todo)
                 /\ pc' = pc
            ELSE /\ pc' = "u_port_blocked"
                 /\ UNCHANGED <<todo, sigs, alive>>
    /\ UNCHANGED <<kind, denied, cleanup_timeout, driver, chrome_pids,
                   initial_ports, spawned_pids, chromedriver_pid,
                   chrome_ports, user_data_dir, outer, cur, elapsed,
                   cleanup_success, remaining, releases, workflow_exc,
                   exc_out, steps, quit_calls, quit_raised, npolls,
                   busy_polls, quiet_at, verify_scans, entered, first_scan,
                   verify_kills, verify_ret, tree_pids, kill_log, esc_start,
                   pids_before, pids_after, spawn_delta, delta_done,
                   shared_driver, launches, wdriver, driver_lock,
                   active_threads, thread_id, thread, spc, wpc, wid, wout,
                   records, scanned, scan_done, parent_of, listing,
                   tree_root, tree_gone, resolved, calendar_rows,
                   prefer_dates, chosen_date, available_dates, find_done>>

\* _strategy_system_command_cleanup: the pkill -9 -f / killall -9 commands,
\* each under timeout=2; run as strategy 4 and again inside strategy 6.
\* A command that times out has no effect and its error is passed over.
Ultra_SysCmd ==
    /\ pc \in {"u_syscmd", "u_syscmd2"}
    /\ steps' = Append(steps, "syscmd")
    /\ \E hangs \in BOOLEAN :
         IF RunComesBack(SysCmdTimeout, hangs)
         THEN LET targets == IF hangs THEN {} ELSE SysCmdTargets(alive) IN
              /\ sigs' = sigs \cup {Sig("syscmd", p, "KILL") : p \in targets}
              /\ alive' = alive \ (targets \ denied)
              /\ pc' = IF pc = "u_syscmd" THEN StrategyAfter("syscmd")
                                          ELSE "u_verify"
         ELSE /\ pc' = "u_syscmd_blocked"
              /\ UNCHANGED <<sigs, alive>>
    /\ UNCHANGED <<kind, denied, cleanup_timeout, driver, chrome_pids,
                   initial_ports, spawned_pids, chromedriver_pid,
                   chrome_ports, user_data_dir, outer, todo, cur, elapsed,
                   cleanup_success, remaining, releases, workflow_exc,
                   exc_out, quit_calls, quit_raised, npolls, busy_polls,
                   quiet_at, verify_scans, entered, first_scan, verify_kills,
                   verify_ret, tree_pids, kill_log, esc_start, pids_before,
                   pids_after, spawn_delta, delta_done, shared_driver,
                   launches, wdriver, driver_lock, active_threads, thread_id,
                   thread, spc, wpc, wid, wout, records, scanned, scan_done,
                   parent_of, listing, tree_root, tree_gone, resolved,
                   calendar_rows, prefer_dates, chosen_date, available_dates,
                   find_done>>

\* _strategy_user_data_cleanup: shutil.rmtree(ignore_errors=True) when the
\* directory exists
Ultra_UserData ==
    /\ pc = "u_userdata"
    /\ steps' = Append(steps, "userdata")
    /\ user_data_dir' = IF user_data_dir = "Dir" THEN "Removed" ELSE user_data_dir
    /\ pc' = StrategyAfter("userdata")
    /\ UNCHANGED <<kind, alive, denied, cleanup_timeout, driver, chrome_pids,
                   initial_ports, spawned_pids, chromedriver_pid,
                   chrome_ports, outer, todo, cur, elapsed, cleanup_success,
                   remaining, releases, workflow_exc, exc_out, sigs,
                   quit_calls, quit_raised, npolls, busy_polls, quiet_at,
                   verify_scans, entered, first_scan, verify_kills,
                   verify_ret, tree_pids, kill_log, esc_start, pids_before,
                   pids_after, spawn_delta, delta_done, shared_driver,
                   launches, wdriver, driver_lock, active_threads, thread_id,
                   thread, spc, wpc, wid, wout, records, scanned, scan_done,
                   parent_of, listing, tree_root, tree_gone, resolved,
                   calendar_rows, prefer_dates, chosen_date, available_dates,
                   find_done>>

\* _strategy_final_brute_force is entered: one scan
Ultra_BruteBegin ==
    /\ pc = "u_brute"
    /\ steps' = Append(steps, "brute")
    /\ first_scan' = Scan("Ultra", alive)
    /\ verify_scans' = 1
    /\ todo' = SetToSeq(Scan("Ultra", alive))
    /\ pc' = IF Scan("Ultra", alive) = {} THEN "u_syscmd2" ELSE "u_brute_kill"
    /\ UNCHANGED <<kind, alive, denied, cleanup_timeout, driver, chrome_pids,
                   initial_ports, spawned_pids, chromedriver_pid,
                   chrome_ports, user_data_dir, outer, cur, elapsed,
                   cleanup_success, remaining, releases, workflow_exc,
                   exc_out, sigs, quit_calls, quit_raised, npolls,
                   busy_polls, quiet_at, entered, verify_kills, verify_ret,
                   tree_pids, kill_log, esc_start, pids_before, pids_after,
                   spawn_delta, delta_done, shared_driver, launches, wdriver,
                   driver_lock, active_threads, thread_id, thread, spc, wpc,
                   wid, wout, records, scanned, scan_done, parent_of,
                   listing, tree_root, tree_gone, resolved, calendar_rows,
                   prefer_dates, chosen_date, available_dates, find_done>>

\* One turn of its loop: os.kill(pid, SIGKILL), ProcessLookupError and
\* PermissionError passed over
Ultra_BruteKill ==
    /\ pc = "u_brute_kill"
    /\ todo # <<>>
    /\ LET p == Head(todo) IN
       /\ sigs' = sigs \cup {Sig("brute", p, "KILL")}
       /\ verify_kills' = verify_kills + 1
       /\ alive' = IF Attempt(p) = "sent" THEN alive \ {p} ELSE alive
       /\ todo' = Tail(todo)
       /\ pc' = IF Tail(todo) = <<>> THEN "u_syscmd2" ELSE pc
    /\ UNCHANGED <<kind, denied, cleanup_timeout, driver, chrome_pids,
                   initial_ports, spawned_pids, chromedriver_pid,
                   chrome_ports, user_data_dir, outer, cur, elapsed,
                   cleanup_success, remaining, releases, workflow_exc,
                   exc_out, steps, quit_calls, quit_raised, npolls,
                   busy_polls, quiet_at, verify_scans, entered, first_scan,
                   verify_ret, tree_pids, kill_log, esc_start, pids_before,
                   pids_after, spawn_delta, delta_done, shared_driver,
                   launches, wdriver, driver_lock, active_threads, thread_id,
                   thread, spc, wpc, wid, wout, records, scanned, scan_done,
                   parent_of, listing, tree_root, tree_gone, resolved,
                   calendar_rows, prefer_dates, chosen_date, available_dates,
                   find_done>>

\* `return len(remaining_pids)` of ChromeUltraAggressiveCleanup._verify_cleanup
UltraVerifyReturns(remaining_pids) == PyInt(Cardinality(remaining_pids))

\* _verify_cleanup: one scan, whose size __exit__ prints
Ultra_Verify ==
    /\ pc = "u_verify"
    /\ steps' = Append(steps, "verify")
    /\ remaining' = Scan("Ultra", alive)
    /\ verify_scans' = verify_scans + 1
    /\ verify_ret' = UltraVerifyReturns(Scan("Ultra", alive))
    /\ pc' = "return"
    /\ UNCHANGED <<kind, alive, denied, cleanup_timeout, driver, chrome_pids,
                   initial_ports, spawned_pids, chromedriver_pid,
                   chrome_ports, user_data_dir, outer, todo, cur, elapsed,
                   cleanup_success, releases, workflow_exc, exc_out, sigs,
                   quit_calls, quit_raised, npolls, busy_polls, quiet_at,
                   entered, first_scan, verify_kills, tree_pids, kill_log,
                   esc_start, pids_before, pids_after, spawn_delta,
                   delta_done, shared_driver, launches, wdriver, driver_lock,
                   active_threads, thread_id, thread, spc, wpc, wid, wout,
                   records, scanned, scan_done, parent_of, listing,
                   tree_root, tree_gone, resolved, calendar_rows,
                   prefer_dates, chosen_date, available_dates, find_done>>

\* --------------------------------------------- the spawn-delta on its own
\* The subtraction of __enter__ applied to every pair of snapshots over Pids.
\* A controller that is constructed and never entered
Unused ==
    /\ kind = "Full"
    /\ alive = {}
    /\ denied = {}
    /\ cleanup_timeout = 0
    /\ Constructed

DeltaInit ==
    /\ Unused
    /\ pids_before \in SUBSET Pids
    /\ pids_after \in SUBSET Pids
    /\ spawn_delta = {}
    /\ delta_done = FALSE
    /\ ModuleLoaded
    /\ NoCalendar
    /\ NoGraph
    /\ NoRecords

\* `current_pids - existing_pids`
DeltaApply ==
    /\ ~delta_done
    /\ spawn_delta' = Delta(pids_before, pids_after)
    /\ delta_done' = TRUE
    /\ UNCHANGED <<kind, alive, denied, cleanup_timeout, driver, chrome_pids,
                   initial_ports, spawned_pids, chromedriver_pid,
                   chrome_ports, user_data_dir, pc, outer, todo, cur,
                   elapsed, cleanup_success, remaining, releases,
                   workflow_exc, exc_out, steps, sigs, quit_calls,
                   quit_raised, npolls, busy_polls, quiet_at, verify_scans,
                   entered, first_scan, verify_kills, verify_ret, tree_pids,
                   kill_log, esc_start, pids_before, pids_after,
                   shared_driver, launches, wdriver, driver_lock,
                   active_threads, thread_id, thread, spc, wpc, wid, wout,
                   records, scanned, scan_done, parent_of, listing,
                   tree_root, tree_gone, resolved, calendar_rows,
                   prefer_dates, chosen_date, available_dates, find_done>>

DeltaNext == DeltaApply

DeltaSpec == DeltaInit /\ [][DeltaNext]_vars

\* ------------------------------------------------ an inventory scan on its own
\* The loop of _get_chrome_pids / _get_all_chrome_related_pids applied to
\* synthetic lists of process records.

\* a str field of proc.info
PyStr(s) == [type |-> "str", n |-> 0, s |-> s]

\* `value or ""`
OrEmpty(value) == IF value = PyNone THEN <<>> ELSE value.s

CapChrome == <<"C">> \o SubSeq(W_chrome, 2, 6)
CapHeadless == <<"-", "-", "H">> \o SubSeq(W_headless, 2, 8)
CapPort == <<"-", "-", "P">> \o SubSeq(W_port, 4, 7)
CapType == <<"-", "-", "T">> \o SubSeq(W_type, 4, 7)

\* the name, exe and command line fields the records are built from:
\* None stands for a field psutil could not read
RecordNames ==
    {PyNone, PyStr(W_bash), PyStr(W_chrome), PyStr(CapChrome), PyStr(W_chromium),
     PyStr(W_driver), PyStr(W_chromedriver)}
RecordExes == {PyNone, PyStr(W_bash), PyStr(W_chrome), PyStr(W_chromium)}
RecordCmdlines ==
    {PyNone, PyStr(W_bash), PyStr(W_bash \o W_sp \o W_port),
     PyStr(W_bash \o W_sp \o CapPort), PyStr(W_bash \o W_sp \o W_type),
     PyStr(W_bash \o W_sp \o CapType), PyStr(W_bash \o W_sp \o W_udd),
     PyStr(W_bash \o W_sp \o W_rdp), PyStr(W_bash \o W_sp \o W_testtype),
     PyStr(W_bash \o W_sp \o CapHeadless), PyStr(W_bash \o W_sp \o W_nosandbox),
     PyStr(W_bash \o W_sp \o W_chromedriver)}

\* what reading a process can raise inside the loop
RecordErrors == {"none", "NoSuchProcess", "AccessDenied"}

ProcessRecords ==
    [name : RecordNames, exe : RecordExes, cmdline : RecordCmdlines,
     err : RecordErrors]

\* the record a second process of the list has: a browser or a shell
SecondRecords ==
    {[name |-> PyStr(W_chrome), exe |-> PyStr(W_chrome),
      cmdline |-> PyStr(W_chrome), err |-> "none"],
     [name |-> PyStr(W_bash), exe |-> PyStr(W_bash),
      cmdline |-> PyStr(W_bash), err |-> "none"]}

\* name = proc.info["name"] or "", and so on for exe and cmdline
InfoOfRecord(rec) ==
    [name |-> OrEmpty(rec.name), exe |-> OrEmpty(rec.exe),
     cmdline |-> OrEmpty(rec.cmdline)]

\* the except clause of the loop: (NoSuchProcess, AccessDenied), and
\* AttributeError too in ChromeUltraAggressiveCleanup
ScanCatches(k, err) ==
    err \in {"NoSuchProcess", "AccessDenied"}
            \cup (IF k = "Ultra" THEN {"AttributeError"} ELSE {})

RECURSIVE ScanRecords(_, _, _)
\* The loop from position i on: the positions whose record is kept.  An
\* error the except clause does not catch would end the scan there.
ScanRecords(k, recs, i) ==
    IF i > Len(recs) THEN {}
    ELSE IF recs[i].err # "none"
         THEN (IF ScanCatches(k, recs[i].err)
               THEN ScanRecords(k, recs, i + 1) ELSE {})
         ELSE (IF Match(k, InfoOfRecord(recs[i])) THEN {i} ELSE {})
                 \cup ScanRecords(k, recs, i + 1)

MatchInit ==
    /\ Unused
    /\ NoSnapshots
    /\ ModuleLoaded
    /\ NoCalendar
    /\ NoGraph
    /\ records \in {<<first, second>> : first \in ProcessRecords, second \in SecondRecords}
    /\ scanned = [k \in Kinds |-> {}]
    /\ scan_done = FALSE

\* each controller scans the list
ScanApply ==
    /\ ~scan_done
    /\ scanned' = [k \in Kinds |-> ScanRecords(k, records, 1)]
    /\ scan_done' = TRUE
    /\ UNCHANGED <<kind, alive, denied, cleanup_timeout, driver, chrome_pids,
                   initial_ports, spawned_pids, chromedriver_pid,
                   chrome_ports, user_data_dir, pc, outer, todo, cur,
                   elapsed, cleanup_success, remaining, releases,
                   workflow_exc, exc_out, steps, sigs, quit_calls,
                   quit_raised, npolls, busy_polls, quiet_at, verify_scans,
                   entered, first_scan, verify_kills, verify_ret, tree_pids,
                   kill_log, esc_start, pids_before, pids_after, spawn_delta,
                   delta_done, shared_driver, launches, wdriver, driver_lock,
                   active_threads, thread_id, thread, spc, wpc, wid, wout,
                   records, parent_of, listing, tree_root, tree_gone,
                   resolved, calendar_rows, prefer_dates, chosen_date,
                   available_dates, find_done>>

MatchNext == ScanApply

MatchSpec == MatchInit /\ [][MatchNext]_vars

\* ------------------------------------------- a process tree on its own
\* _get_process_tree applied to every forest over Nodes, every set of live
\* processes, every root, and every set of processes that vanish while the
\* call is under way.
Nodes == 1..MaxNodes

RECURSIVE Climbs(_, _, _)
\* following the parents from p ends within n steps
Climbs(parents, p, n) ==
    IF p = 0 THEN TRUE
    ELSE IF n = 0 THEN FALSE
    ELSE Climbs(parents, parents[p], n - 1)

\* the parent relations without a cycle
Forests ==
    {parents \in [Nodes -> 0..MaxNodes] :
        \A p \in Nodes : Climbs(parents, p, MaxNodes)}

\* orders in which the operating system may list the processes
Listings ==
    {SetToSeq(Nodes), Reverse(SetToSeq(Nodes)),
     SetToSeq({p \in Nodes : p % 2 = 0}) \o SetToSeq({p \in Nodes : p % 2 = 1})}

TreeInit ==
    /\ kind = "Proper"
    /\ alive \in SUBSET Nodes
    /\ denied = {}
    /\ cleanup_timeout = 0
    /\ Constructed
    /\ NoSnapshots
    /\ NoRecords
    /\ ModuleLoaded
    /\ NoCalendar
    /\ parent_of \in Forests
    /\ listing \in Listings
    /\ tree_root \in Nodes
    /\ tree_gone \in SUBSET alive
    /\ resolved = FALSE

\* tree_pids = self._get_process_tree(pid)
TreeResolve ==
    /\ ~resolved
    /\ tree_pids' = ResolveTree(parent_of, listing, tree_root, alive, tree_gone)
    /\ alive' = alive \ tree_gone
    /\ resolved' = TRUE
    /\ UNCHANGED <<kind, denied, cleanup_timeout, driver, chrome_pids,
                   initial_ports, spawned_pids, chromedriver_pid,
                   chrome_ports, user_data_dir, pc, outer, todo, cur,
                   elapsed, cleanup_success, remaining, releases,
                   workflow_exc, exc_out, steps, sigs, quit_calls,
                   quit_raised, npolls, busy_polls, quiet_at, verify_scans,
                   entered, first_scan, verify_kills, verify_ret, kill_log,
                   esc_start, pids_before, pids_after, spawn_delta,
                   delta_done, shared_driver, launches, wdriver, driver_lock,
                   active_threads, thread_id, thread, spc, wpc, wid, wout,
                   records, scanned, scan_done, parent_of, listing,
                   tree_root, tree_gone, calendar_rows, prefer_dates,
                   chosen_date, available_dates, find_done>>

TreeNext == TreeResolve

TreeSpec == TreeInit /\ [][TreeNext]_vars

\* --------------------------------------- the calendar search on its own
\* job.find_date_in_rows applied to synthetic calendars: rows of cells, each
\* cell with the values its class and data-date attributes give.
W_calactive == <<"c", "a", "l", "-", "a", "c", "t", "i", "v", "e">>
W_calday == <<"c", "a", "l", "-", "d", "a", "y">>
D_jan31 == <<"2", "0", "2", "5", "-", "0", "1", "-", "3", "1">>
D_feb01 == <<"2", "0", "2", "5", "-", "0", "2", "-", "0", "1">>
D_feb10 == <<"2", "0", "2", "5", "-", "0", "2", "-", "1", "0">>

DigitValue(c) ==
    CASE c = "0" -> 0 [] c = "1" -> 1 [] c = "2" -> 2 [] c = "3" -> 3
      [] c = "4" -> 4 [] c = "5" -> 5 [] c = "6" -> 6 [] c = "7" -> 7
      [] c = "8" -> 8 [] c = "9" -> 9

RECURSIVE ParseInt(_)
\* the number a run of digits stands for
ParseInt(s) ==
    IF s = <<>> THEN 0
    ELSE 10 * ParseInt(SubSeq(s, 1, Len(s) - 1)) + DigitValue(s[Len(s)])

\* datetime.strptime(col_date, "%Y-%m-%d").date() and date.fromisoformat:
\* year, month, day
ParseDate(s) ==
    [year |-> ParseInt(SubSeq(s, 1, 4)), month |-> ParseInt(SubSeq(s, 6, 7)),
     day |-> ParseInt(SubSeq(s, 9, 10))]

\* a <= b on datetime.date
DateLe(a, b) ==
    \/ a.year < b.year
    \/ a.year = b.year /\ a.month < b.month
    \/ a.year = b.year /\ a.month = b.month /\ a.day <= b.day

\* the values get_attribute("class") and get_attribute("data-date") give
CellClasses ==
    {PyNone, PyStr(W_calday), PyStr(W_calday \o W_sp \o W_calactive)}
CellDates == {PyNone, PyStr(<<>>), PyStr(D_jan31), PyStr(D_feb01), PyStr(D_feb10)}
Cells == [class : CellClasses, date : CellDates]

\* the td elements of a tr, and the tr elements of the calendar
CalendarRows == UNION {[1..n -> Cells] : n \in 1..MaxCols}
Calendars == UNION {[1..n -> CalendarRows] : n \in 1..MaxRows}

\* the values of PREFER_DATES get_prefer_dates parses
PreferDates ==
    {<<ParseDate(D_feb01), ParseDate(D_feb01)>>,
     <<ParseDate(D_jan31), ParseDate(D_feb01)>>,
     <<ParseDate(D_feb01), ParseDate(D_feb10)>>}

\* the WebElement of column c of row r
Element(r, c) == [type |-> "WebElement", n |-> 0, row |-> r, col |-> c]

\* the type object str
StrType == [type |-> "type", n |-> 0, s |-> <<"s", "t", "r">>]

\* `col_class is str`: the value is the type object itself
IsStr(value) == value = StrType

\* the test that guards `available_dates.add(current_date)`
ColIsActive(col_class) ==
    IsStr(col_class) /\ Contains(W_calactive, col_class.s)

RECURSIVE FindInCols(_, _, _, _)
\* `for col in cols` from column c on: the element the loop breaks at, None
\* when it runs to its end
FindInCols(cols, prefer, r, c) ==
    IF c > Len(cols) THEN PyNone
    ELSE LET col_class == cols[c].class
             col_date == cols[c].date
         IN  IF col_date = PyNone \/ col_date = PyStr(<<>>)
             THEN FindInCols(cols, prefer, r, c + 1)
             ELSE LET current_date == ParseDate(col_date.s)
                  IN  IF /\ ColIsActive(col_class)
                         /\ DateLe(prefer[1], current_date)
                         /\ DateLe(current_date, prefer[2])
                      THEN Element(r, c)
                      ELSE FindInCols(cols, prefer, r, c + 1)

RECURSIVE FindDateInRows(_, _, _)
\* `for row in rows` from row r on: chosen_date
FindDateInRows(rows, prefer, r) ==
    IF r > Len(rows) THEN PyNone
    ELSE LET chosen == FindInCols(rows[r], prefer, r, 1)
         IN  IF chosen # PyNone THEN chosen
             ELSE FindDateInRows(rows, prefer, r + 1)

\* the cells the loops visit: all of the rows up to the chosen one, and of
\* that row the columns up to the chosen one
Visited(rows, chosen) ==
    {rc \in {<<r, c>> : r \in DOMAIN rows, c \in 1..MaxCols} :
        /\ rc[2] \in DOMAIN rows[rc[1]]
        /\ chosen # PyNone =>
              \/ rc[1] < chosen.row
              \/ rc[1] = chosen.row /\ rc[2] <= chosen.col}

\* available_dates when the loops are over
AvailableDates(rows, chosen) ==
    {ParseDate(rows[rc[1]][rc[2]].date.s) :
        rc \in {v \in Visited(rows, chosen) :
                  /\ rows[v[1]][v[2]].date \notin {PyNone, PyStr(<<>>)}
                  /\ ColIsActive(rows[v[1]][v[2]].class)}}

CalendarInit ==
    /\ Unused
    /\ NoSnapshots
    /\ NoRecords
    /\ ModuleLoaded
    /\ NoGraph
    /\ calendar_rows \in Calendars
    /\ prefer_dates \in PreferDates
    /\ chosen_date = PyNone
    /\ available_dates = {}
    /\ find_done = FALSE

\* chosen_date = find_date_in_rows(calendar_rows, prefer_dates, logger)
FindDate ==
    /\ ~find_done
    /\ LET chosen == FindDateInRows(calendar_rows, prefer_dates, 1) IN
       /\ chosen_date' = chosen
       /\ available_dates' = AvailableDates(calendar_rows, chosen)
    /\ find_done' = TRUE
    /\ UNCHANGED <<kind, alive, denied, cleanup_timeout, driver, chrome_pids,
                   initial_ports, spawned_pids, chromedriver_pid,
                   chrome_ports, user_data_dir, pc, outer, todo, cur,
                   elapsed, cleanup_success, remaining, releases,
                   workflow_exc, exc_out, steps, sigs, quit_calls,
                   quit_raised, npolls, busy_polls, quiet_at, verify_scans,
                   entered, first_scan, verify_kills, verify_ret, tree_pids,
                   kill_log, esc_start, pids_before, pids_after, spawn_delta,
                   delta_done, shared_driver, launches, wdriver, driver_lock,
                   active_threads, thread_id, thread, spc, wpc, wid, wout,
                   records, scanned, scan_done, parent_of, listing,
                   tree_root, tree_gone, resolved, calendar_rows,
                   prefer_dates>>

CalendarNext == FindDate

CalendarSpec == CalendarInit /\ [][CalendarNext]_vars

\* ------------------------------------------------- main.py: the scheduler
\* schedule.run_pending() calls start_run_process in the main thread, one
\* call at a time; each call starts one daemon worker thread.

\* schedule fires the job: start_run_process is entered
Sched_Trigger ==
    /\ spc = "idle"
    /\ \E w \in Workers : wpc[w] = "new"
    /\ spc' = "init_driver"
    /\ UNCHANGED <<kind, alive, denied, cleanup_timeout, driver, chrome_pids,
                   initial_ports, spawned_pids, chromedriver_pid,
                   chrome_ports, user_data_dir, pc, outer, todo, cur,
                   elapsed, cleanup_success, remaining, releases,
                   workflow_exc, exc_out, steps, sigs, quit_calls,
                   quit_raised, npolls, busy_polls, quiet_at, verify_scans,
                   entered, first_scan, verify_kills, verify_ret, tree_pids,
                   kill_log, esc_start, pids_before, pids_after, spawn_delta,
                   delta_done, shared_driver, launches, wdriver, driver_lock,
                   active_threads, thread_id, thread, wpc, wid, wout,
                   records, scanned, scan_done, parent_of, listing,
                   tree_root, tree_gone, resolved, calendar_rows,
                   prefer_dates, chosen_date, available_dates, find_done>>

\* (faulty variant of DriverMissing: a browser is launched at every trigger)
DriverMissingAlways == TRUE

\* `if shared_driver is None:`
DriverMissing == shared_driver = PyNone

\* init_shared_driver: init_chromium is called only while shared_driver is
\* None; when it raises, shared_driver stays None
InitSharedDriver ==
    /\ spc = "init_driver"
    /\ IF DriverMissing
       THEN \E launched \in BOOLEAN :
                IF launched
                THEN /\ shared_driver' = Handle(launches + 1)
                     /\ launches' = launches + 1
                ELSE /\ shared_driver' = PyNone
                     /\ launches' = launches
       ELSE /\ shared_driver' = shared_driver
            /\ launches' = launches
    /\ spc' = "gen_id"
    /\ UNCHANGED <<kind, alive, denied, cleanup_timeout, driver, chrome_pids,
                   initial_ports, spawned_pids, chromedriver_pid,
                   chrome_ports, user_data_dir, pc, outer, todo, cur,
                   elapsed, cleanup_success, remaining, releases,
                   workflow_exc, exc_out, steps, sigs, quit_calls,
                   quit_raised, npolls, busy_polls, quiet_at, verify_scans,
                   entered, first_scan, verify_kills, verify_ret, tree_pids,
                   kill_log, esc_start, pids_before, pids_after, spawn_delta,
                   delta_done, wdriver, driver_lock, active_threads,
                   thread_id, thread, wpc, wid, wout, records, scanned,
                   scan_done, parent_of, listing, tree_root, tree_gone,
                   resolved, calendar_rows, prefer_dates, chosen_date,
                   available_dates, find_done>>

\* `thread_id = len(active_threads) + 1`, read without thread_lock
GenerateThreadId ==
    /\ spc = "gen_id"
    /\ thread_id' = Cardinality(DOMAIN active_threads) + 1
    /\ spc' = "start"
    /\ UNCHANGED <<kind, alive, denied, cleanup_timeout, driver, chrome_pids,
                   initial_ports, spawned_pids, chromedriver_pid,
                   chrome_ports, user_data_dir, pc, outer, todo, cur,
                   elapsed, cleanup_success, remaining, releases,
                   workflow_exc, exc_out, steps, sigs, quit_calls,
                   quit_raised, npolls, busy_polls, quiet_at, verify_scans,
                   entered, first_scan, verify_kills, verify_ret, tree_pids,
                   kill_log, esc_start, pids_before, pids_after, spawn_delta,
                   delta_done, shared_driver, launches, wdriver, driver_lock,
                   active_threads, thread, wpc, wid, wout, records, scanned,
                   scan_done, parent_of, listing, tree_root, tree_gone,
                   resolved, calendar_rows, prefer_dates, chosen_date,
                   available_dates, find_done>>

\* Thread(target=worker_thread, args=(thread_id,), daemon=True).start()
ThreadStart ==
    /\ spc = "start"
    /\ \E w \in Workers :
         /\ wpc[w] = "new"
         /\ \A v \in Workers : wpc[v] = "new" => w <= v
         /\ thread' = w
         /\ wpc' = [wpc EXCEPT ![w] = "check"]
         /\ wid' = [wid EXCEPT ![w] = thread_id]
    /\ spc' = "register"
    /\ UNCHANGED <<kind, alive, denied, cleanup_timeout, driver, chrome_pids,
                   initial_ports, spawned_pids, chromedriver_pid,
                   chrome_ports, user_data_dir, pc, outer, todo, cur,
                   elapsed, cleanup_success, remaining, releases,
                   workflow_exc, exc_out, steps, sigs, quit_calls,
                   quit_raised, npolls, busy_polls, quiet_at, verify_scans,
                   entered, first_scan, verify_kills, verify_ret, tree_pids,
                   kill_log, esc_start, pids_before, pids_after, spawn_delta,
                   delta_done, shared_driver, launches, wdriver, driver_lock,
                   active_threads, thread_id, wout, records, scanned,
                   scan_done, parent_of, listing, tree_root, tree_gone,
                   resolved, calendar_rows, prefer_dates, chosen_date,
                   available_dates, find_done>>

\* d[key] = value
DictSet(d, key, value) ==
    [k \in DOMAIN d \cup {key} |-> IF k = key THEN value ELSE d[k]]

\* `if key in d: del d[key]`
DictDiscard(d, key) == [k \in DOMAIN d \ {key} |-> d[k]]

\* `with thread_lock: active_threads[thread_id] = thread`; the call returns
RegisterThread ==
    /\ spc = "register"
    /\ active_threads' = DictSet(active_threads, thread_id, thread)
    /\ thread' = 0
    /\ spc' = "idle"
    /\ UNCHANGED <<kind, alive, denied, cleanup_timeout, driver, chrome_pids,
                   initial_ports, spawned_pids, chromedriver_pid,
                   chrome_ports, user_data_dir, pc, outer, todo, cur,
                   elapsed, cleanup_success, remaining, releases,
                   workflow_exc, exc_out, steps, sigs, quit_calls,
                   quit_raised, npolls, busy_polls, quiet_at, verify_scans,
                   entered, first_scan, verify_kills, verify_ret, tree_pids,
                   kill_log, esc_start, pids_before, pids_after, spawn_delta,
                   delta_done, shared_driver, launches, wdriver, driver_lock,
                   thread_id, wpc, wid, wout, records, scanned, scan_done,
                   parent_of, listing, tree_root, tree_gone, resolved,
                   calendar_rows, prefer_dates, chosen_date, available_dates,
                   find_done>>

\* ----------------------------------------------- main.py: worker_thread
\* `if shared_driver is None: return`
W_Check(w) ==
    /\ wpc[w] = "check"
    /\ wpc' = [wpc EXCEPT ![w] = IF shared_driver = PyNone THEN "done" ELSE "acquire"]
    /\ UNCHANGED <<kind, alive, denied, cleanup_timeout, driver, chrome_pids,
                   initial_ports, spawned_pids, chromedriver_pid,
                   chrome_ports, user_data_dir, pc, outer, todo, cur,
                   elapsed, cleanup_success, remaining, releases,
                   workflow_exc, exc_out, steps, sigs, quit_calls,
                   quit_raised, npolls, busy_polls, quiet_at, verify_scans,
                   entered, first_scan, verify_kills, verify_ret, tree_pids,
                   kill_log, esc_start, pids_before, pids_after, spawn_delta,
                   delta_done, shared_driver, launches, wdriver, driver_lock,
                   active_threads, thread_id, thread, spc, wid, wout,
                   records, scanned, scan_done, parent_of, listing,
                   tree_root, tree_gone, resolved, calendar_rows,
                   prefer_dates, chosen_date, available_dates, find_done>>

\* (faulty variant of LockFree: acquisition does not look at the holder)
LockAlwaysFree == TRUE

\* Lock.acquire() blocks until no thread holds the lock
LockFree == driver_lock = 0

\* `with driver_lock:` is entered
W_Acquire(w) ==
    /\ wpc[w] = "acquire"
    /\ LockFree
    /\ driver_lock' = w
    /\ wpc' = [wpc EXCEPT ![w] = "job"]
    /\ UNCHANGED <<kind, alive, denied, cleanup_timeout, driver, chrome_pids,
                   initial_ports, spawned_pids, chromedriver_pid,
                   chrome_ports, user_data_dir, pc, outer, todo, cur,
                   elapsed, cleanup_success, remaining, releases,
                   workflow_exc, exc_out, steps, sigs, quit_calls,
                   quit_raised, npolls, busy_polls, quiet_at, verify_scans,
                   entered, first_scan, verify_kills, verify_ret, tree_pids,
                   kill_log, esc_start, pids_before, pids_after, spawn_delta,
                   delta_done, shared_driver, launches, wdriver,
                   active_threads, thread_id, thread, spc, wid, wout,
                   records, scanned, scan_done, parent_of, listing,
                   tree_root, tree_gone, resolved, calendar_rows,
                   prefer_dates, chosen_date, available_dates, find_done>>

\* How a call of job_func can end: it returns (its own try/except logs any
\* Exception of the workflow), or an exception leaves it: one raised inside
\* its except or finally clause, or one that is no Exception.
JobOutcomes == {"returned", "Exception", "BaseException"}

\* job_func(thread_logger, shared_driver) ends
W_Job(w) ==
    /\ wpc[w] = "job"
    /\ wdriver' = [wdriver EXCEPT ![w] = shared_driver]
    /\ \E outcome \in JobOutcomes : wout' = [wout EXCEPT ![w] = outcome]
    /\ wpc' = [wpc EXCEPT ![w] = "exit_cs"]
    /\ UNCHANGED <<kind, alive, denied, cleanup_timeout, driver, chrome_pids,
                   initial_ports, spawned_pids, chromedriver_pid,
                   chrome_ports, user_data_dir, pc, outer, todo, cur,
                   elapsed, cleanup_success, remaining, releases,
                   workflow_exc, exc_out, steps, sigs, quit_calls,
                   quit_raised, npolls, busy_polls, quiet_at, verify_scans,
                   entered, first_scan, verify_kills, verify_ret, tree_pids,
                   kill_log, esc_start, pids_before, pids_after, spawn_delta,
                   delta_done, shared_driver, launches, driver_lock,
                   active_threads, thread_id, thread, spc, wid, records,
                   scanned, scan_done, parent_of, listing, tree_root,
                   tree_gone, resolved, calendar_rows, prefer_dates,
                   chosen_date, available_dates, find_done>>

\* (faulty variant of ReleasedOnExit: the lock is released only when the
\* body of the with statement ends normally)
ReleasedOnReturnOnly(outcome) == outcome = "returned"

\* the with statement releases driver_lock however its body ended
ReleasedOnExit(outcome) == TRUE

\* the with statement is left: normally towards the bookkeeping, with an
\* Exception towards the except clause, with anything else the thread dies
W_Release(w) ==
    /\ wpc[w] = "exit_cs"
    /\ driver_lock' = IF ReleasedOnExit(wout[w]) THEN 0 ELSE driver_lock
    /\ wpc' = [wpc EXCEPT ![w] =
                  CASE wout[w] = "returned" -> "mark"
                    [] wout[w] = "Exception" -> "handler"
                    [] OTHER -> "done"]
    /\ UNCHANGED <<kind, alive, denied, cleanup_timeout, driver, chrome_pids,
                   initial_ports, spawned_pids, chromedriver_pid,
                   chrome_ports, user_data_dir, pc, outer, todo, cur,
                   elapsed, cleanup_success, remaining, releases,
                   workflow_exc, exc_out, steps, sigs, quit_calls,
                   quit_raised, npolls, busy_polls, quiet_at, verify_scans,
                   entered, first_scan, verify_kills, verify_ret, tree_pids,
                   kill_log, esc_start, pids_before, pids_after, spawn_delta,
                   delta_done, shared_driver, launches, wdriver,
                   active_threads, thread_id, thread, spc, wid, wout,
                   records, scanned, scan_done, parent_of, listing,
                   tree_root, tree_gone, resolved, calendar_rows,
                   prefer_dates, chosen_date, available_dates, find_done>>

\* `with thread_lock: if thread_id in active_threads: del ...`, after the
\* critical section or in the except clause; the thread ends
W_Mark(w) ==
    /\ wpc[w] \in {"mark", "handler"}
    /\ active_threads' = DictDiscard(active_threads, wid[w])
    /\ wpc' = [wpc EXCEPT ![w] = "done"]
    /\ UNCHANGED <<kind, alive, denied, cleanup_timeout, driver, chrome_pids,
                   initial_ports, spawned_pids, chromedriver_pid,
                   chrome_ports, user_data_dir, pc, outer, todo, cur,
                   elapsed, cleanup_success, remaining, releases,
                   workflow_exc, exc_out, steps, sigs, quit_calls,
                   quit_raised, npolls, busy_polls, quiet_at, verify_scans,
                   entered, first_scan, verify_kills, verify_ret, tree_pids,
                   kill_log, esc_start, pids_before, pids_after, spawn_delta,
                   delta_done, shared_driver, launches, wdriver, driver_lock,
                   thread_id, thread, spc, wid, wout, records, scanned,
                   scan_done, parent_of, listing, tree_root, tree_gone,
                   resolved, calendar_rows, prefer_dates, chosen_date,
                   available_dates, find_done>>

SchedInit ==
    /\ Unused
    /\ NoSnapshots
    /\ NoRecords
    /\ ModuleLoaded
    /\ NoCalendar
    /\ NoGraph

SchedNext ==
    \/ Sched_Trigger
    \/ InitSharedDriver
    \/ GenerateThreadId
    \/ ThreadStart
    \/ RegisterThread
    \/ \E w \in Workers : W_Check(w)
    \/ \E w \in Workers : W_Acquire(w)
    \/ \E w \in Workers : W_Job(w)
    \/ \E w \in Workers : W_Release(w)
    \/ \E w \in Workers : W_Mark(w)

SchedSpec == SchedInit /\ [][SchedNext]_vars

\* Every thread that can run gets to run; a thread blocked in acquire gets
\* the lock if it is free again and again; every call of job_func ends.
SchedFairness ==
    \A w \in Workers :
        /\ WF_vars(W_Check(w))
        /\ SF_vars(W_Acquire(w))
        /\ WF_vars(W_Job(w))
        /\ WF_vars(W_Release(w))
        /\ WF_vars(W_Mark(w))

SchedLiveSpec == SchedSpec /\ SchedFairness

\* -------------------------------------------------------------- claims
\* a release has ended: __exit__ returned or raised
ReleaseEnded == releases >= 1 /\ pc \in {"returned", "raised"}

\* the steps of the escalating killer (the verifier's steps are "brute"
\* and "verify")
EscSteps == {"kill", "sweep", "force", "tree", "port", "syscmd"}

EscalationRan == \E i \in DOMAIN steps : steps[i] \in EscSteps

LastStep == IF steps = <<>> THEN "none" ELSE steps[Len(steps)]

\* what the caller of the with statement sees after release
CallerSees ==
    IF pc = "raised" THEN exc_out
    ELSE IF workflow_exc /\ ~ExitReturnValue THEN "workflow" ELSE "none"

\* C1 as stated: in every controller the escalating kill step runs if and
\* only if the graceful wait reported false, and no escalation signal is
\* issued when the wait reported true.
C1_EscalationIffWaitFailed ==
    /\ EscalationRan => cleanup_success = "false"
    /\ (ReleaseEnded /\ cleanup_success = "false") => EscalationRan
    /\ cleanup_success = "true" => {s \in sigs : s.step \in EscSteps} = {}

\* C1 amended: the equivalence holds for ChromeWithFullCleanup and
\* ChromeWithProperCleanup; ChromeUltraAggressiveCleanup has no wait result
\* and runs its kill strategies in every release that returns.
C1_EscalationIffWaitFailed_FullProper ==
    /\ kind \in {"Full", "Proper"} => C1_EscalationIffWaitFailed
    /\ (kind = "Ultra" /\ ReleaseEnded) =>
            (cleanup_success = "unset" /\ EscalationRan)

\* C1 witnesses: a Proper release whose wait timed out and whose forced
\* kill ended a process
C1_Witness ==
    /\ kind = "Proper" /\ pc = "returned" /\ cleanup_success = "false"
    /\ \E s \in sigs : s.step = "force" /\ s.res = "sent"

\* C2 as stated: every release ends with the verifier, which runs after the
\* graceful shutdown and after every kill strategy that ran.
C2_VerifierAlwaysLast == ReleaseEnded => LastStep = "verify"

\* C3 as stated: no release path raises; __exit__ returns False whatever
\* the process environment does.
C3_ReleaseNeverRaises == pc # "raised" /\ exc_out = "none" /\ ~ExitReturnValue

\* C4 as stated: when the wrapped workflow raised, the caller sees that same
\* exception after release.
C4_WorkflowExceptionPropagates ==
    (ReleaseEnded /\ releases = 1 /\ workflow_exc) => CallerSees = "workflow"

Selectable(k) ==
    LET roots == Family(k) \cup
                 (IF k = "Ultra"
                  THEN SysCmdTargets(Pids)
                         \cup {p \in Pids : ProcTable(p).ports \cap chrome_ports # {}}
                  ELSE {})
    IN  UNION {Range(GetProcessTree(r, Pids)) : r \in roots}

ExpectedSteps ==
    CASE kind = "Full" ->
            IF cleanup_success = "true" THEN <<"quit", "wait">>
            ELSE <<"quit", "wait", "kill", "sweep">>
      [] kind = "Proper" ->
            IF cleanup_success = "true" THEN <<"quit", "wait", "verify">>
            ELSE <<"quit", "wait", "force", "verify">>
      [] OTHER -> <<"quit", "tree", "port", "syscmd", "userdata", "brute",
                    "syscmd", "verify">>

\* the release in progress began with a live driver handle
HadDriver == IF kind = "Proper" THEN entered /\ releases = 1 ELSE driver = "Driver"

\* C6: a release with a live driver handle calls quit exactly once; an
\* error of quit never leaves __exit__, the step after quit is started
\* and a release that returns has run every step it runs otherwise.
C6_QuitOnceAndSwallowed ==
    /\ (releases >= 1 /\ steps # <<>>) =>
            quit_calls = (IF HadDriver THEN 1 ELSE 0)
    /\ exc_out # "WebDriverException"
    /\ (quit_raised /\ ReleaseEnded) => Len(steps) >= 2
    /\ (quit_raised /\ pc = "returned") => steps = ExpectedSteps

\* C6 witness: quit raised and the release still went through the wait, the
\* forced kill and the verifier
C6_Witness ==
    /\ kind = "Proper" /\ pc = "returned" /\ quit_raised
    /\ quit_calls = 1 /\ cleanup_success = "false"

\* C7: the wait returns true at the first poll that finds no tracked id
\* alive, and false when the timeout has elapsed with a tracked id alive at
\* every poll; it never returns true with a tracked id alive.
C7_WaitResult ==
    /\ cleanup_success = "true" =>
            /\ npolls >= 1
            /\ busy_polls = npolls - 1
            /\ spawned_pids \cap alive = {}
    /\ cleanup_success = "false" =>
            /\ elapsed = cleanup_timeout
            /\ busy_polls = npolls
            /\ npolls = cleanup_timeout

\* C7 witness: the wait returned true at its second poll
C7_Witness == cleanup_success = "true" /\ npolls = 2 /\ busy_polls = 1

\* The time T at which the last tracked process exited, as the first poll
\* instant that finds it gone; past the timeout when it outlived the wait.
ExitTime == IF quiet_at = -1 THEN cleanup_timeout + 1 ELSE quiet_at

\* C8: with the tracked processes exiting at time T after the wait starts,
\* the wait returns false when cleanup_timeout < T and true when
\* cleanup_timeout >= T + 1 poll interval (stated for any tracked set, a
\* single process included).
C8_TimeoutBoundary ==
    cleanup_success # "unset" =>
        /\ cleanup_timeout < ExitTime => cleanup_success = "false"
        /\ cleanup_timeout >= ExitTime + 1 => cleanup_success = "true"

\* C8 witness: a single tracked process exits at T = 1, the timeout is 2
\* and the wait returned true
C8_Witness ==
    /\ kind = "Full" /\ Cardinality(spawned_pids) = 1
    /\ quiet_at = 1 /\ cleanup_timeout = 2 /\ cleanup_success = "true"

\* C9 as stated: when a target of a kill batch has disappeared before its
\* signal, the failure is swallowed and the rest of the batch is signalled.
C9_VanishedTargetSwallowed ==
    (\E s \in sigs : s.res = "gone") =>
        /\ exc_out = "none"
        /\ ReleaseEnded => (todo = <<>> /\ outer = <<>>)

\* C10 as stated: a second release in a row does not call quit again,
\* signals no process, does not raise and sees no tracked survivor.
C10_SecondReleaseNoOp ==
    releases >= 2 =>
        /\ quit_calls = 0
        /\ sigs = {}
        /\ exc_out = "none"
        /\ ReleaseEnded => spawned_pids \cap alive = {}

\* a release of a controller whose acquire never completed
UnenteredRelease == ~entered /\ releases >= 1

\* C11 as stated: release of a controller whose acquire never completed
\* (driver is None, nothing tracked) returns without raising and signals no
\* process.
C11_UnenteredReleaseSafe ==
    UnenteredRelease => (pc # "raised" /\ exc_out = "none" /\ sigs = {})

\* the signals of the kill step of the current release
EscSigs == {s \in sigs : s.step \in EscSteps}

\* the kill step of the current release began with a tracked set that
\* exists and is empty
EmptyTrackedEscalation ==
    esc_start.ran /\ HasSpawnedPids /\ esc_start.empty

\* what a kill step of controller k can reach among the processes `live`:
\* the trees of the family processes and, for Ultra, of those a name-based
\* command or a tracked port selects
SweepReach(k, live) ==
    LET roots == live \cap
                 (Family(k) \cup
                  (IF k = "Ultra"
                   THEN SysCmdTargets(Pids)
                          \cup {p \in Pids : ProcTable(p).ports \cap chrome_ports # {}}
                   ELSE {}))
    IN  UNION {Range(GetProcessTree(r, live)) : r \in roots}

C13_DeltaIsDifference ==
    delta_done =>
        /\ spawn_delta = {p \in pids_after : p \notin pids_before}
        /\ pids_before = pids_after => spawn_delta = {}
        /\ pids_before = {} => spawn_delta = pids_after
        /\ spawn_delta \cap pids_before = {}

\* C13 witness: the delta of the empty snapshot and {1, 2, 3} is {1, 2, 3}
C13_Witness ==
    /\ delta_done /\ pids_before = {} /\ pids_after = {1, 2, 3}
    /\ spawn_delta = {1, 2, 3}

\* the verifier of the current release has returned
VerifierReturned == verify_ret # NotReturned

\* C14 as stated: in every controller that has a verifier, the verifier
\* returns to its caller the number of family-matching processes its last
\* rescan found alive (0 when none remain).
C14_VerifierReturnsCount ==
    VerifierReturned => verify_ret = PyInt(Cardinality(remaining))

\* the steps of the current release from the verifier's first scan on
\* (_verify_cleanup in Proper, _strategy_final_brute_force and
\* _verify_cleanup in Ultra)
VerifierSteps ==
    LET starts == {i \in DOMAIN steps : steps[i] \in {"brute", "verify"}}
    IN  IF starts = {} THEN <<>> ELSE SubSeq(steps, Min(starts), Len(steps))

\* the verifier ran a name-based command sweep besides its kill pass
SecondKillPass == \E i \in DOMAIN VerifierSteps : VerifierSteps[i] = "syscmd"

\* the signals of the verifier's own kill pass
VerifierSigs == {s \in sigs : s.step \in {"brute", "verify"}}

\* C15 as stated: the verifier makes one kill pass, one kill per survivor of
\* its first rescan, and rescans once more; it issues no kill when the
\* first rescan finds none, never a second kill pass, never more than two
\* scans.
C15_VerifierTerminal ==
    /\ verify_scans <= 2
    /\ verify_kills <= Cardinality(first_scan)
    /\ \A s \in VerifierSigs : s.pid \in first_scan
    /\ ~SecondKillPass
    /\ VerifierReturned =>
            /\ verify_kills = Cardinality(first_scan)
            /\ first_scan # {} => verify_scans = 2

\* C15 amended: as stated for ChromeWithProperCleanup (one scan when the
\* first finds none).  In ChromeUltraAggressiveCleanup the kill pass of
\* _strategy_final_brute_force is always followed by one more name-based
\* command sweep, survivors or not, and _verify_cleanup makes the second
\* and last scan.  Neither repeats a pass.
C15_VerifierOnePassThenReport ==
    /\ verify_scans <= 2
    /\ verify_kills <= Cardinality(first_scan)
    /\ \A s \in VerifierSigs : s.pid \in first_scan
    /\ kind = "Proper" => ~SecondKillPass
    /\ VerifierReturned =>
            /\ verify_kills = Cardinality(first_scan)
            /\ kind = "Proper" =>
                    /\ verify_scans = (IF first_scan = {} THEN 1 ELSE 2)
                    /\ VerifierSteps = <<"verify">>
            /\ kind = "Ultra" =>
                    /\ verify_scans = 2
                    /\ VerifierSteps = <<"brute", "syscmd", "verify">>

\* C15 witness: the verifier of ChromeWithProperCleanup found two
\* survivors, made two kills, rescanned and returned
C15_Witness ==
    /\ kind = "Proper" /\ pc = "returned" /\ Cardinality(first_scan) = 2
    /\ verify_kills = 2 /\ verify_scans = 2

\* the workers inside the critical section of driver_lock
InCriticalSection == {w \in Workers : wpc[w] \in {"job", "exit_cs"}}

\* C16: at most one worker thread at a time runs job_func with the shared
\* driver, inside the driver_lock critical section.
C16_MutualExclusion ==
    /\ Cardinality(InCriticalSection) <= 1
    /\ \A w \in InCriticalSection : driver_lock = w /\ shared_driver # PyNone

\* C16 witness: one worker runs the job while two others are blocked in
\* acquire
C16_Witness ==
    /\ wpc[1] = "job"
    /\ wpc[2] = "acquire"
    /\ wpc[3] = "acquire"

\* C17: a worker that starts while the shared driver is available gets the
\* lock and runs job_func in the end, and the lock is free again whenever
\* the critical section has been left, also when the job raised.
C17_QueuedWorkerRuns ==
    /\ \A w \in Workers :
          (wpc[w] = "check" /\ shared_driver # PyNone) ~> (wpc[w] = "job")
    /\ [](\A w \in Workers : driver_lock = w => w \in InCriticalSection)

\* C17 witness: a worker runs the job after the job of another raised
C17_Witness ==
    \E v, w \in Workers :
        /\ wpc[v] = "done" /\ wout[v] = "Exception"
        /\ wpc[w] = "job" /\ wid[w] > 0

\* The markers of each family predicate: the field looked at, the text
\* looked for, and whether the field is lower-cased first.
Marker(field, text, fold) == [field |-> field, text |-> text, fold |-> fold]

Markers(k) ==
    CASE k = "Full" ->
            {Marker("name", t, TRUE) : t \in {W_chrome, W_chromium}}
      [] k = "Proper" ->
            {Marker("name", t, TRUE) : t \in {W_chrome, W_chromium, W_chromedriver}}
              \cup {Marker("cmdline", W_chromedriver, TRUE),
                    Marker("cmdline", W_port, FALSE)}
      [] OTHER ->
            {Marker(f, t, TRUE) :
                f \in {"name", "exe"}, t \in {W_chrome, W_chromium, W_chromedriver}}
              \cup {Marker("cmdline", t, TRUE) :
                      t \in {W_type, W_udd, W_rdp, W_testtype, W_headless,
                              W_nosandbox}}

\* marker m is present in the record: None holds no marker
MarkerPresent(m, rec) ==
    /\ rec[m.field] # PyNone
    /\ Contains(m.text, IF m.fold THEN Lower(rec[m.field].s) ELSE rec[m.field].s)

\* C18: the family predicate of a scan keeps a record if and only if one
\* of its markers is present in the record; a record that cannot be read
\* is skipped and the records after it are still classified.
C18_MatchIffMarker ==
    scan_done =>
        \A k \in Kinds :
            scanned[k] =
                {i \in DOMAIN records :
                    /\ records[i].err = "none"
                    /\ \E m \in Markers(k) : MarkerPresent(m, records[i])}

\* C18 witness: the first record cannot be read and is skipped, the second
\* is a browser and every scan keeps it
C18_Witness ==
    /\ scan_done
    /\ records[1].err = "AccessDenied"
    /\ records[1].name = PyStr(W_chrome)
    /\ \A k \in Kinds : scanned[k] = {2}

\* the session is active: acquire has returned, release has not started
SessionActive == pc \in {"body", "exit"}

\* C19 as stated: while the session is active every tracked id is the id of
\* a process a live inventory scan returns, also after tracked processes
\* have exited on their own.
C19_TrackedSubsetOfLiveScan ==
    SessionActive => spawned_pids \subseteq Scan(kind, alive)

\* C19 amended: the tracked set is fixed when acquire returns and is not
\* pruned: every tracked id is the id of a process the family predicate
\* accepts, and the tracked processes that are still alive are in a live
\* scan; the id of a tracked process that has exited stays tracked.
C19_TrackedAreFamily ==
    SessionActive =>
        /\ spawned_pids \subseteq Family(kind)
        /\ spawned_pids \cap alive \subseteq Scan(kind, alive)

\* C19 witness: a tracked renderer has exited during the session and its
\* id is still tracked, next to tracked processes that are alive
C19_Witness ==
    /\ pc = "exit"
    /\ \E p \in spawned_pids \cap Renderers : p \notin alive
    /\ spawned_pids \cap alive # {}

\* the positions of step name in the current release
StepAt(name) == {i \in DOMAIN steps : steps[i] = name}

\* the id-based kill steps of the three controllers
IdSteps == {"kill", "force", "tree"}

\* C20 as stated: in every release where escalation runs, no port-based
\* kill is issued before the OS name-based command sweep and no name-based
\* command before the id-based signals.
C20_PortAfterNameSweep ==
    /\ \A i \in StepAt("port") : \E j \in StepAt("syscmd") : j < i
    /\ \A i \in StepAt("syscmd") :
            \E j \in DOMAIN steps : j < i /\ steps[j] \in IdSteps

\* C20 amended: ChromeUltraAggressiveCleanup runs the id-based tree kill
\* (soft signal, then hard signal to the same process), then the
\* port-based kill, then the OS name-based commands; no name-based command
\* is issued before the port-based kill and no port-based kill before the
\* id-based signals.  The other controllers have neither step.
C20_PortBeforeNameSweep ==
    /\ \A i \in StepAt("port") :
            /\ \E j \in StepAt("tree") : j < i
            /\ \A j \in StepAt("syscmd") : i < j
    /\ \A i \in StepAt("syscmd") : \E j \in StepAt("port") : j < i
    /\ \A s \in sigs :
            /\ s.step \in {"port", "syscmd"} => kind = "Ultra"
            /\ (s.step = "tree" /\ s.sig = "KILL") =>
                    SigR("tree", s.pid, "TERM", s.res) \in sigs
    /\ (kind = "Ultra" /\ pc = "returned") => steps = ExpectedSteps

\* C20 witness: a release of ChromeUltraAggressiveCleanup has killed the
\* owner of a tracked port in its port step and then a process by a
\* name-based command
C20_Witness ==
    /\ kind = "Ultra" /\ pc = "returned"
    /\ \E s \in sigs : s.step = "port" /\ s.res = "sent"
    /\ \E s \in sigs : s.step = "syscmd"

\* the positions of kill_log that hold signal sig
LogPositions(sig) == {i \in DOMAIN kill_log : kill_log[i].sig = sig}

\* C21 as stated: in every tree kill of an escalation the hard signal goes
\* only to a process that received the soft signal just before and was
\* still running after it.
C21_HardOnlyAfterSoft ==
    \A i \in LogPositions("KILL") :
        /\ i > 1
        /\ kill_log[i - 1].pid = kill_log[i].pid
        /\ kill_log[i - 1].sig = "TERM"
        /\ kill_log[i - 1].outlived

\* the first loop of Ultra's tree strategy, over the tracked ids, is over
TrackedTreesKilled ==
    /\ kind = "Ultra"
    /\ \E i \in DOMAIN steps : steps[i] = "tree"
    /\ pc \notin {TreePc(1), KillPc(1)}

\* C21 amended: ChromeUltraAggressiveCleanup sends the soft signal first and
\* the hard signal exactly to the processes found running after it, and no
\* tracked process it may signal survives the tree strategy;
\* ChromeWithProperCleanup sends no soft signal: every member of every
\* resolved tree gets the hard signal straight away.
C21_SoftThenHardInUltraOnly ==
    /\ kind = "Ultra" =>
         /\ C21_HardOnlyAfterSoft
         /\ \A i \in LogPositions("TERM") :
                kill_log[i].outlived =>
                    /\ i < Len(kill_log)
                    /\ kill_log[i + 1].pid = kill_log[i].pid
                    /\ kill_log[i + 1].sig = "KILL"
         /\ TrackedTreesKilled => (spawned_pids \cap alive) \subseteq denied
    /\ kind = "Proper" => LogPositions("TERM") = {}

\* C21 witness: Ultra's tree strategy went over every tracked process of the
\* session, all but one exited on the soft signal, one needed the hard
\* signal, none is left
C21_Witness ==
    /\ TrackedTreesKilled
    /\ spawned_pids = SessionPids
    /\ {kill_log[i].pid : i \in LogPositions("TERM")} = SessionPids
    /\ Cardinality(LogPositions("KILL")) = 1
    /\ spawned_pids \cap alive = {}

RECURSIVE Ancestors(_)
\* the parent of p, its parent, and so on
Ancestors(p) ==
    LET parent == ProcTable(p).ppid
    IN  IF parent = 0 THEN {} ELSE {parent} \cup Ancestors(parent)

\* C22: within the kill of one tree a descendant is signalled before each
\* of its ancestors, and the root is signalled after every other member.
C22_LeavesBeforeRoots ==
    \A i, j \in DOMAIN kill_log :
        kill_log[i].root = kill_log[j].root =>
            /\ kill_log[j].pid \in Ancestors(kill_log[i].pid) => i < j
            /\ (kill_log[j].pid = kill_log[j].root
                    /\ kill_log[i].pid # kill_log[i].root) => i < j

\* C22 witness: a tree three levels deep was killed to its end: renderer,
\* then browser, then the chromedriver at its root
C22_Witness ==
    /\ pc \in {"p_tree", TreePc(1)}
    /\ Len(tree_pids) = 3
    /\ \E i, j, k \in DOMAIN kill_log :
        /\ i < j /\ j < k
        /\ kill_log[i].root = tree_pids[1]
        /\ kill_log[j].root = tree_pids[1]
        /\ kill_log[k].root = tree_pids[1]
        /\ kill_log[k].pid = tree_pids[1]
        /\ kill_log[j].pid = ProcTable(kill_log[i].pid).ppid
        /\ kill_log[k].pid = ProcTable(kill_log[j].pid).ppid

RECURSIVE Closure(_, _, _)
\* S and every live process that has an ancestor in S through live processes
Closure(parents, S, live) ==
    LET grown == S \cup {c \in live : parents[c] \in S}
    IN  IF grown = S THEN S ELSE Closure(parents, grown, live)

\* C23: for every parent relation, listing order and root,
\* _get_process_tree returns the root first, then every process that
\* descends from it through live processes, each exactly once and nothing
\* else; a root that is not there gives the empty list, a root that
\* vanishes during the call gives the root alone, and a process that
\* vanishes is left out with what hung below it.
C23_TreeIsRootThenDescendants ==
    resolved =>
        /\ Cardinality(Range(tree_pids)) = Len(tree_pids)
        /\ IF tree_root \notin alive \cup tree_gone
           THEN tree_pids = <<>>
           ELSE /\ tree_pids[1] = tree_root
                /\ Range(tree_pids) =
                      IF tree_root \in tree_gone THEN {tree_root}
                      ELSE Closure(parent_of, {tree_root}, alive)

\* C23 witness: a tree three levels deep with two siblings, listed in
\* descending order, resolved to all of its four processes
C23_Witness ==
    /\ resolved
    /\ Len(tree_pids) = MaxNodes
    /\ listing = Reverse(SetToSeq(Nodes))
    /\ \E c \in Nodes : parent_of[c] # 0 /\ parent_of[parent_of[c]] = tree_root
    /\ \E c, d \in Nodes : c # d /\ parent_of[c] = parent_of[d] /\ parent_of[c] # 0

\* the step of __enter__ that fills the tracked set
Tracking == pc = "track" /\ pc' = "body"

\* the primary process id the client exposed at launch, if it did
ExposedPrimary ==
    IF kind = "Proper" /\ chromedriver_pid # 0 THEN {chromedriver_pid} ELSE {}

\* C24 as stated: acquire leaves the tracked set equal to the spawn-delta
\* united with the primary id the client exposed; it adds no other process
\* of the pre-launch snapshot, the fallback search included.
C24_TrackedIsDeltaPlusPrimary ==
    [][Tracking =>
        /\ spawned_pids' = Delta(chrome_pids, Scan(kind, alive)) \cup ExposedPrimary
        /\ (spawned_pids' \cap chrome_pids) \subseteq ExposedPrimary]_vars

\* a step of __enter__
AcquireStep ==
    /\ pc \in {"init", "launch", "track"}
    /\ pc' \in {"launch", "track", "body", "enter_failed"}

\* C25 as stated: no step outside __enter__ changes the tracked set or the
\* primary process id, so both are the same when release returns as when
\* it started.
C25_ReleaseKeepsTracker ==
    [][~AcquireStep =>
        /\ spawned_pids' = spawned_pids
        /\ chromedriver_pid' = chromedriver_pid]_vars

\* the statement that ends _force_kill_process_tree
ForceKillEnds == kind = "Proper" /\ pc = "p_tree" /\ pc' = "p_verify"

\* C25 amended: release never changes the primary process id and never
\* adds to the tracked set; ChromeWithFullCleanup and
\* ChromeUltraAggressiveCleanup leave the tracked set as it was, while
\* ChromeWithProperCleanup empties it at the end of its forced kill (and
\* leaves it as it was when the graceful wait succeeded).
C25_ReleaseKeepsTrackerUnlessForced ==
    [][~AcquireStep =>
        /\ chromedriver_pid' = chromedriver_pid
        /\ spawned_pids' = IF ForceKillEnds THEN {} ELSE spawned_pids]_vars

\* C25 witness: a Proper release that began its forced kill with processes
\* tracked has returned with none tracked and the primary id still set
C25_Witness ==
    /\ kind = "Proper"
    /\ pc = "returned"
    /\ esc_start.ran /\ ~esc_start.empty
    /\ spawned_pids = {}
    /\ chromedriver_pid # 0

\* C26 as stated: every release that begins ends, whatever the shell
\* commands of the cleanup do: a command that hangs is cut off by its
\* timeout and the timeout is passed over.
C26_ReleaseTerminates == (pc = "quit") ~> (pc \in {"returned", "raised"})

\* C27 as stated: every port of the session's port set is bound by a process
\* the family predicate accepts, and the port-based kill signals no process
\* that the predicate rejects.
C27_PortsBoundByFamily ==
    /\ \A port \in chrome_ports :
            \E p \in Family("Ultra") : port \in ProcTable(p).ports
    /\ \A s \in sigs : s.step = "port" => s.pid \in Family("Ultra")

\* the cell at row rc[1], column rc[2] is marked available and carries a
\* data-date inside the preferred range
Eligible(rc) ==
    LET cell == calendar_rows[rc[1]][rc[2]] IN
    /\ cell.class # PyNone
    /\ Contains(W_calactive, cell.class.s)
    /\ cell.date \notin {PyNone, PyStr(<<>>)}
    /\ DateLe(prefer_dates[1], ParseDate(cell.date.s))
    /\ DateLe(ParseDate(cell.date.s), prefer_dates[2])

EligibleCells ==
    {rc \in {<<r, c>> : r \in DOMAIN calendar_rows, c \in 1..MaxCols} :
        rc[2] \in DOMAIN calendar_rows[rc[1]] /\ Eligible(rc)}

\* C28 as stated: find_date_in_rows returns the first cell, in row then
\* column order, that is marked available with a data-date in the preferred
\* range, and None only when the rows hold no such cell.
C28_FirstAvailableInRange ==
    find_done =>
        IF EligibleCells = {} THEN chosen_date = PyNone
        ELSE /\ chosen_date # PyNone
             /\ <<chosen_date.row, chosen_date.col>> \in EligibleCells
             /\ \A rc \in EligibleCells :
                    \/ chosen_date.row < rc[1]
                    \/ chosen_date.row = rc[1] /\ chosen_date.col <= rc[2]

\* _wait_for_process_cleanup was called in the current release and is over
WaitOver ==
    /\ \E i \in DOMAIN steps : steps[i] = "wait"
    /\ pc \notin {"wait_check", "wait_sleep"}

\* C29 as stated: when no tracked process is alive as the graceful wait
\* starts, the wait returns true, whatever cleanup_timeout is.
C29_QuietWaitReturnsTrue ==
    (WaitOver /\ quiet_at = 0) => cleanup_success = "true"

\* the worker threads that were started and have not ended
Running == {w \in Workers : wpc[w] \notin {"new", "done"}}

\* C30 as stated: the thread_id start_run_process has chosen is no key of
\* active_threads, so registering the new worker overwrites no entry, and no
\* two running workers carry the same id.
C30_ThreadIdsUnique ==
    /\ spc \in {"start", "register"} => thread_id \notin DOMAIN active_threads
    /\ \A v, w \in Running : v # w => wid[v] # wid[w]

\* worker w has ended and the start_run_process call that started it has
\* returned
EndedAndRegistered(w) == wpc[w] = "done" /\ thread # w

\* C31 as stated: once a worker has ended, however it ended, and the call
\* that started it has returned, its id is no key of active_threads.
C31_OnlyUnfinishedWorkers ==
    \A w \in Workers :
        EndedAndRegistered(w) => wid[w] \notin DOMAIN active_threads

\* C32: init_chromium returns a driver at most once; shared_driver is None
\* until then, a failed launch leaves it None, and from then on it is that
\* one driver, which is the driver every worker passes to job_func.
C32_SharedDriverCreatedOnce ==
    /\ launches <= 1
    /\ shared_driver = IF launches = 0 THEN PyNone ELSE Handle(1)
    /\ \A w \in Workers :
            wpc[w] \in {"exit_cs", "mark", "handler"} => wdriver[w] = Handle(1)

\* C32 witness: the first trigger's launch failed and its worker returned
\* early, a later trigger launched the browser, and two workers of later
\* triggers have passed the same driver to job_func
C32_Witness ==
    /\ wpc[1] = "done" /\ wout[1] = "none"
    /\ shared_driver = Handle(1)
    /\ wdriver[2] = Handle(1) /\ wdriver[3] = Handle(1)

\* the two ports _get_chrome_related_ports always returns
WellKnownPorts == {DevToolsPort, ChromeDriverPort}

\* C33: the port delta of acquire never holds 9222 or 9515, and the
\* port-based kill never looks up either of them.
C33_WellKnownPortsNeverTracked ==
    /\ chrome_ports \cap WellKnownPorts = {}
    /\ pc = "u_port" => Range(todo) \cap WellKnownPorts = {}

\* C33 witness: acquire found the session's chromedriver, which listens on
\* 9515, running; the port delta is not empty and the port-based kill of the
\* release has signalled the owner of one of its ports
C33_Witness ==
    /\ kind = "Ultra" /\ pc = "returned"
    /\ chromedriver_pid # 0
    /\ ChromeDriverPort \in ProcTable(chromedriver_pid).ports
    /\ chrome_ports # {}
    /\ \E s \in sigs : s.step = "port" /\ s.res = "sent"

\* ---------------------------------------------------------------- Next
Next ==
    \/ Enter_Snapshot
    \/ Enter_Launch
    \/ Enter_LaunchFails
    \/ Enter_Track
    \/ Body_Return
    \/ Body_Raise
    \/ \E p \in Pids : ProcExit(p)
    \/ \E p \in Pids : ProcSpawn(p)
    \/ \E p \in Pids : UnrelatedStart(p)
    \/ Exit_Begin
    \/ Quit
    \/ Wait_Begin
    \/ Wait_Check
    \/ Wait_Sleep
    \/ Exit_Return
    \/ Full_KillBegin
    \/ Full_Kill
    \/ Full_SweepBegin
    \/ Full_SweepFetch
    \/ Full_SweepTerminate
    \/ Proper_ForceBegin
    \/ Proper_TreeResolve
    \/ Proper_TreeKill
    \/ Proper_Verify
    \/ Proper_VerifyKill
    \/ Proper_VerifyRescan
    \/ Proper_Finally
    \/ Ultra_TreeBegin
    \/ Ultra_TreeResolve
    \/ Ultra_TreeKill
    \/ Ultra_PortBegin
    \/ Ultra_Port
    \/ Ultra_SysCmd
    \/ Ultra_UserData
    \/ Ultra_BruteBegin
    \/ Ultra_BruteKill
    \/ Ultra_Verify

Spec == Init /\ [][Next]_vars

\* A caller that is in __exit__ keeps running, and so does the rest of the
\* host.
LiveSpec == Spec /\ WF_vars(Next)

====
